---------------------------- MODULE Spec2Model ----------------------------
(***************************************************************************)
(* A model of the audio-metadata batch tagger (common.py, terminal.py,     *)
(* bpm.py, cover.py, metadata.py).                                         *)
(*                                                                         *)
(* Python values are tagged tuples, so that values of different types can  *)
(* be compared the way Python compares them (None != "x", 1 != None):      *)
(*   None            <<"None">>                                            *)
(*   str             <<"str", chars>>   chars: a sequence of 1-char strings*)
(*   int             <<"int", n>>                                          *)
(*   bool            <<"bool", b>>                                         *)
(*   tuple           <<"tuple", a, b>>                                     *)
(* The tag codec (mutagen), the beat tracker (librosa) and the file picker *)
(* (tkinter) are external: the codec is a key -> value store per file, the *)
(* beat tracker and the picker are inputs chosen by the environment.       *)
(***************************************************************************)
EXTENDS Integers, Sequences, FiniteSets, TLC

VARIABLES
    files,     \* the audio files of the batch, in directory-listing order
    coverFs,   \* the image files on disk: a set of [dir, name, data]
    args,      \* the directory arguments: [cover_dir, used_dir, move_to_dir]
    idx,       \* add_metadata_all: position of the for loop in the listing
    status,    \* which function runs, and how far: see Return
    pc,        \* add_metadata: the prompt or picker ("pick") it is blocked at, "call", "save", "idle"
    loc,       \* add_metadata: its local variables
    calls,     \* what each call did: its inputs, prompts, outcome (a history)
    tm         \* terminal.py: the last prompt call, its input and its result

vars == <<files, coverFs, args, idx, status, pc, loc, calls, tm>>

----------------------------------------------------------------------------
(* Python values *)

None == <<"None">>
S(chars) == <<"str", chars>>
I(n) == <<"int", n>>
B(b) == <<"bool", b>>
T2(a, b) == <<"tuple", a, b>>

IsStr(v) == v[1] = "str"
IsInt(v) == v[1] = "int"

\* Python truthiness of None, str, int, bool: `if v:`
Truthy(v) ==
    CASE v[1] = "None" -> FALSE
      [] v[1] = "str" -> v[2] # <<>>
      [] v[1] = "int" -> v[2] # 0
      [] v[1] = "bool" -> v[2]
      [] OTHER -> TRUE

\* All sequences over A of length at most n.
SeqsUpTo(A, n) == UNION {[1..k -> A] : k \in 0..n}

----------------------------------------------------------------------------
(* str methods used by the program *)

RECURSIVE LStrip(_)
LStrip(s) == IF s # <<>> /\ Head(s) = " " THEN LStrip(Tail(s)) ELSE s

RECURSIVE RStrip(_)
RStrip(s) ==
    IF s # <<>> /\ s[Len(s)] = " " THEN RStrip(SubSeq(s, 1, Len(s) - 1)) ELSE s

\* str.strip(): leading and trailing whitespace removed
Strip(s) == RStrip(LStrip(s))

UpperLetters ==
    <<"A", "B", "C", "D", "E", "F", "G", "H", "I", "J", "K", "L", "M",
      "N", "O", "P", "Q", "R", "S", "T", "U", "V", "W", "X", "Y", "Z">>
LowerLetters ==
    <<"a", "b", "c", "d", "e", "f", "g", "h", "i", "j", "k", "l", "m",
      "n", "o", "p", "q", "r", "s", "t", "u", "v", "w", "x", "y", "z">>

LowerChar(c) ==
    IF \E i \in 1..Len(UpperLetters) : UpperLetters[i] = c
    THEN LowerLetters[CHOOSE i \in 1..Len(UpperLetters) : UpperLetters[i] = c]
    ELSE c

\* str.lower()
Lower(s) == [i \in 1..Len(s) |-> LowerChar(s[i])]

Digits == {"0", "1", "2", "3", "4", "5", "6", "7", "8", "9"}

DigitVal(c) ==
    CASE c = "0" -> 0 [] c = "1" -> 1 [] c = "2" -> 2 [] c = "3" -> 3
      [] c = "4" -> 4 [] c = "5" -> 5 [] c = "6" -> 6 [] c = "7" -> 7
      [] c = "8" -> 8 [] c = "9" -> 9

RECURSIVE DigitsVal(_)
DigitsVal(s) ==
    IF s = <<>> THEN 0 ELSE 10 * DigitsVal(SubSeq(s, 1, Len(s) - 1)) + DigitVal(s[Len(s)])

\* int(str): surrounding whitespace ignored, an optional sign, then digits.
\* None stands for the ValueError int() raises on anything else.
ParseInt(s) ==
    LET t == Strip(s)
        signed == t # <<>> /\ Head(t) \in {"-", "+"}
        d == IF signed THEN Tail(t) ELSE t
    IN  IF d = <<>> \/ \E i \in 1..Len(d) : d[i] \notin Digits
        THEN None
        ELSE IF signed /\ Head(t) = "-" THEN I(0 - DigitsVal(d)) ELSE I(DigitsVal(d))

RECURSIVE Find(_, _, _)
\* str.find(sep) from position i (1-based): the first index at which sep occurs, 0 if none
Find(s, sep, i) ==
    IF i + Len(sep) - 1 > Len(s) THEN 0
    ELSE IF SubSeq(s, i, i + Len(sep) - 1) = sep THEN i
    ELSE Find(s, sep, i + 1)

\* A split at the last occurrence of sep instead of the first.
Split1_Last(s, sep) ==
    LET at == {i \in 1..Len(s) : i + Len(sep) - 1 <= Len(s)
                                  /\ SubSeq(s, i, i + Len(sep) - 1) = sep}
    IN  IF at = {} THEN <<s>>
        ELSE LET i == CHOOSE x \in at : \A y \in at : y <= x
             IN  <<SubSeq(s, 1, i - 1), SubSeq(s, i + Len(sep), Len(s))>>

\* s.split(sep, 1): at most one split, at the first occurrence of sep
Split1(s, sep) ==
    LET i == Find(s, sep, 1)
    IN  IF i = 0 THEN <<s>>
        ELSE <<SubSeq(s, 1, i - 1), SubSeq(s, i + Len(sep), Len(s))>>

RECURSIVE RFind(_, _, _)
\* str.rfind(c): the last index of character c at or before i, 0 if none
RFind(s, c, i) ==
    IF i = 0 THEN 0 ELSE IF s[i] = c THEN i ELSE RFind(s, c, i - 1)

\* os.path.splitext of a name without directories: the extension starts at the
\* last dot, unless only dots precede it.
SplitExt(p) ==
    LET dotIndex == RFind(p, ".", Len(p))
    IN  IF dotIndex > 0 /\ \E k \in 1..(dotIndex - 1) : p[k] # "."
        THEN <<SubSeq(p, 1, dotIndex - 1), SubSeq(p, dotIndex, Len(p))>>
        ELSE <<p, <<>>>>

----------------------------------------------------------------------------
(* terminal.py *)

EXIT == "EXIT"
FAILED == "FAILED"
SUCCESS == "SUCCESS"

\* What input() does: raises KeyboardInterrupt, or returns the line typed.
Interrupt == <<"KeyboardInterrupt">>
Line(chars) == <<"line", chars>>
IsInterrupt(inp) == inp[1] = "KeyboardInterrupt"

ask_input_str(default, inp) ==
    IF IsInterrupt(inp) THEN <<EXIT, None>>
    ELSE LET val == Strip(inp[2])
         IN  IF val = <<>> /\ ~Truthy(default) THEN <<FAILED, None>>
             ELSE IF val = <<>> /\ Truthy(default) THEN <<SUCCESS, default>>
             ELSE <<SUCCESS, S(val)>>

ask_input_int(default, inp) ==
    IF IsInterrupt(inp) THEN <<EXIT, default>>
    ELSE LET int_val == ParseInt(Strip(inp[2]))
         IN  IF int_val = None THEN <<FAILED, default>>
             ELSE <<SUCCESS, int_val>>

ask_input_bool(default, inp) ==
    IF IsInterrupt(inp) THEN <<EXIT, default>>
    ELSE LET val == Lower(Strip(inp[2]))
         IN  IF val = <<>> THEN <<SUCCESS, default>>
             ELSE IF val \in {<<"y">>, <<"y", "e", "s">>} THEN <<SUCCESS, B(TRUE)>>
             ELSE IF val \in {<<"n">>, <<"n", "o">>} THEN <<SUCCESS, B(FALSE)>>
             ELSE <<FAILED, default>>

----------------------------------------------------------------------------
(* common.py: paths and the file system *)

\* A directory path argument; None when the optional argument is not given.
D(p) == <<"path", p>>

AudioDir == "audio"
\* The directories that exist on disk.
ExistingDirs == {"audio", "covers", "used", "moved"}

\* valid_dir_path that accepts every path.
valid_dir_path_Any(dir_path) == TRUE

valid_dir_path(dir_path) == dir_path[1] = "path" /\ dir_path[2] \in ExistingDirs

NOT_SUPPORTED == "NOT_SUPPORTED"
MP3 == "MP3"
M4A == "M4A"

\* An audio file is [name, dir, exists, hasTags, tags, pics]: hasTags is FALSE when
\* the codec loads it with `audio.tags is None`; tags maps each logical field to
\* its stored value or Absent; pics are the embedded pictures (APIC / covr).
Absent == <<"absent">>
Keys == {"title", "artist", "album", "album_artist", "track_nr", "disc_nr",
         "genre", "year", "bpm"}
NoFrames == [k \in Keys |-> Absent]

valid_file_path(f) == f.exists

get_audio_file_extension(f) ==
    IF ~valid_file_path(f) THEN NOT_SUPPORTED
    ELSE LET ext == Lower(SplitExt(f.name)[2])
         IN  IF ext = <<".", "m", "p", "3">> THEN MP3
             ELSE IF ext = <<".", "m", "4", "a">> THEN M4A
             ELSE NOT_SUPPORTED

\* move_file(source, dest) with dest = join(dir, basename(source)): nothing when
\* the source is no file or source and destination are the same path; an
\* existing destination is overwritten.
move_file(f, dir) ==
    IF ~valid_file_path(f) THEN f
    ELSE IF f.dir = dir THEN f
    ELSE [f EXCEPT !.dir = dir]

----------------------------------------------------------------------------
(* bpm.py *)

\* int(v) of a stored tag value: a str is parsed, an int is itself.
PyInt(v) == IF IsStr(v) THEN ParseInt(v[2]) ELSE IF IsInt(v) THEN v ELSE None

DigitChars == <<"0", "1", "2", "3", "4", "5", "6", "7", "8", "9">>

RECURSIVE NatToStr(_)
NatToStr(n) ==
    IF n < 10 THEN <<DigitChars[n + 1]>>
    ELSE NatToStr(n \div 10) \o <<DigitChars[(n % 10) + 1]>>

\* str(int)
IntToStr(n) == IF n < 0 THEN <<"-">> \o NatToStr(0 - n) ELSE NatToStr(n)

\* What the beat tracker does: raises, or returns an array of tempo candidates
\* (each in tenths of a beat per minute).
BeatError == <<"error">>
Beat(tempo) == <<"tempo", tempo>>

\* find_bpm: <<the float returned (tenths), how often the beat tracker ran>>
find_bpm(f, beat) ==
    IF get_audio_file_extension(f) = NOT_SUPPORTED THEN <<0 - 10, 0>>
    ELSE IF beat = BeatError THEN <<0 - 10, 1>>
    ELSE IF Len(beat[2]) > 0 /\ beat[2][1] > 0 THEN <<beat[2][1], 1>>
    ELSE <<0 - 10, 1>>

\* A call that ends by an exception the program does not catch.
Raise == <<"raise">>

\* has_bpm: B(TRUE), B(FALSE), or Raise when the file has no tags at all
\* (`audio.tags.get` on None).
has_bpm(f) ==
    LET ext == get_audio_file_extension(f)
    IN  IF ext = NOT_SUPPORTED THEN B(FALSE)
        ELSE IF ~f.hasTags THEN Raise
        ELSE LET bpm_tag == f.tags["bpm"]
             IN  IF bpm_tag = Absent THEN B(FALSE)
                 ELSE IF PyInt(bpm_tag) = None THEN B(FALSE)
                 ELSE B(PyInt(bpm_tag)[2] > 0)

\* int(round(bpm)) of a float given in tenths: round half to even
RoundTenths(t) ==
    LET q == t \div 10
        r == t % 10
    IN  IF r < 5 THEN q
        ELSE IF r > 5 THEN q + 1
        ELSE IF q % 2 = 0 THEN q ELSE q + 1

\* add_bpm without the has_bpm check: the tempo is estimated on every call.
add_bpm_Unchecked(f, beat) ==
    LET found == find_bpm(f, beat)
        ext == get_audio_file_extension(f)
        bpm_value == RoundTenths(found[1])
    IN  IF found[1] <= 0 \/ ext = NOT_SUPPORTED
        THEN [file |-> f, ran |-> found[2], raised |-> FALSE]
        ELSE [file |-> [f EXCEPT !.hasTags = TRUE,
                                 !.tags["bpm"] = IF ext = MP3 THEN S(IntToStr(bpm_value))
                                                 ELSE I(bpm_value)],
              ran |-> found[2], raised |-> FALSE]

\* add_bpm: [file, ran, raised]: the file afterwards, how often the beat
\* tracker ran, and whether the call ended by an exception.
add_bpm(f, beat) ==
    LET has == has_bpm(f)
        found == find_bpm(f, beat)
        ext == get_audio_file_extension(f)
        bpm_value == RoundTenths(found[1])
    IN  IF has = Raise THEN [file |-> f, ran |-> 0, raised |-> TRUE]
        ELSE IF has = B(TRUE) THEN [file |-> f, ran |-> 0, raised |-> FALSE]
        ELSE IF found[1] <= 0 THEN [file |-> f, ran |-> found[2], raised |-> FALSE]
        ELSE IF ext = MP3
             THEN [file |-> [f EXCEPT !.hasTags = TRUE,
                                      !.tags["bpm"] = S(IntToStr(bpm_value))],
                   ran |-> found[2], raised |-> FALSE]
        ELSE IF ext = M4A
             THEN [file |-> [f EXCEPT !.hasTags = TRUE, !.tags["bpm"] = I(bpm_value)],
                   ran |-> found[2], raised |-> FALSE]
        ELSE [file |-> f, ran |-> found[2], raised |-> FALSE]

RECURSIVE add_bpm_walk(_, _, _, _)
\* The loop of add_bpm_all from the i-th file on: add_bpm on each file that
\* os.walk lists under the directory, beats[i] being what the beat tracker gives
\* on it. An exception of add_bpm ends the walk, the files before it changed.
\* The directories hold no subdirectories. [files, ran, raised]
add_bpm_walk(fs, dir, beats, i) ==
    IF i > Len(fs) THEN [files |-> fs, ran |-> 0, raised |-> FALSE]
    ELSE IF ~fs[i].exists \/ fs[i].dir # dir THEN add_bpm_walk(fs, dir, beats, i + 1)
    ELSE LET r == add_bpm(fs[i], beats[i])
             rest == add_bpm_walk([fs EXCEPT ![i] = r.file], dir, beats, i + 1)
         IN  IF r.raised THEN [files |-> fs, ran |-> r.ran, raised |-> TRUE]
             ELSE [rest EXCEPT !.ran = @ + r.ran]

add_bpm_all(fs, dir_path, beats) ==
    IF ~valid_dir_path(dir_path) THEN [files |-> fs, ran |-> 0, raised |-> FALSE]
    ELSE add_bpm_walk(fs, dir_path[2], beats, 1)

----------------------------------------------------------------------------
(* cover.py *)

\* An image file on disk is [dir, name, data]; a path to one is [dir, name].
PathOf(c) == [dir |-> c.dir, name |-> c.name]
Exists(fs, path) == \E c \in fs : PathOf(c) = path
ReadFile(fs, path) == (CHOOSE c \in fs : PathOf(c) = path).data

IMG_NOT_SUPPORTED == "IMG_NOT_SUPPORTED"
IMG_SUPPORTED == "IMG_SUPPORTED"

get_img_file_extension(fs, img_path) ==
    IF ~Exists(fs, img_path) THEN IMG_NOT_SUPPORTED
    ELSE IF Lower(SplitExt(img_path.name)[2]) \in
                {<<".", "j", "p", "g">>, <<".", "j", "p", "e", "g">>, <<".", "p", "n", "g">>}
         THEN IMG_SUPPORTED
         ELSE IMG_NOT_SUPPORTED

\* has_cover: B(TRUE), B(FALSE), or Raise for an M4A file without tags
\* (`"covr" in audio.tags` on None).
has_cover(f) ==
    LET ext == get_audio_file_extension(f)
    IN  IF ext = NOT_SUPPORTED THEN B(FALSE)
        ELSE IF ext = MP3 THEN B(f.hasTags /\ Len(f.pics) > 0)
        ELSE IF ~f.hasTags THEN Raise
        ELSE B(Len(f.pics) > 0)

\* select_cover: the picker returned `picked` (None, or the path selected)
select_cover(fs, cover_dir_path, picked) ==
    IF ~valid_dir_path(cover_dir_path) THEN None
    ELSE IF picked = None THEN None
    ELSE IF get_img_file_extension(fs, picked[2]) = IMG_NOT_SUPPORTED THEN None
    ELSE picked

\* shutil.move(cover_path, join(used_dir, basename(cover_path)))
MoveCover(fs, cover_path, used) ==
    LET c == CHOOSE x \in fs : PathOf(x) = cover_path
    IN  (fs \ {c}) \cup {[c EXCEPT !.dir = used]}

\* A relocation that replaces a file of the same name in the used directory.
RelocateCover_Overwriting(fs, cover_path, used_dir_path) ==
    IF ~Truthy(used_dir_path) THEN fs
    ELSE IF cover_path.dir = used_dir_path[2] THEN fs
    ELSE MoveCover({c \in fs : PathOf(c) # [dir |-> used_dir_path[2],
                                              name |-> cover_path.name]},
                   cover_path, used_dir_path[2])

\* The relocation at the end of add_cover.
RelocateCover(fs, cover_path, used_dir_path) ==
    IF ~Truthy(used_dir_path) THEN fs
    ELSE IF cover_path.dir = used_dir_path[2] THEN fs
    ELSE IF Exists(fs, [dir |-> used_dir_path[2], name |-> cover_path.name]) THEN fs
    ELSE MoveCover(fs, cover_path, used_dir_path[2])

\* The picture written by add_cover: any APIC / covr is replaced.
EmbedCover(f, data) == [f EXCEPT !.hasTags = TRUE, !.pics = <<data>>]

\* add_cover: [file, fs, raised]
add_cover(f, fs, cover_path, used_dir_path) ==
    LET same == [file |-> f, fs |-> fs, raised |-> FALSE]
    IN  IF Truthy(used_dir_path) /\ ~valid_dir_path(used_dir_path) THEN same
        ELSE IF get_img_file_extension(fs, cover_path) = IMG_NOT_SUPPORTED THEN same
        ELSE IF has_cover(f) = Raise THEN [same EXCEPT !.raised = TRUE]
        ELSE IF has_cover(f) = B(TRUE) THEN same
        ELSE IF get_audio_file_extension(f) = NOT_SUPPORTED THEN same
        ELSE [file |-> EmbedCover(f, ReadFile(fs, cover_path)),
              fs |-> RelocateCover(fs, cover_path, used_dir_path),
              raised |-> FALSE]

----------------------------------------------------------------------------
(* metadata.py *)

HAS_ARTIST == 1
HAS_TITLE == 2
HAS_ALBUM == 4
HAS_ALBUM_ARTIST == 8
HAS_TRACK_NUMBER == 16
HAS_DISC_NUMBER == 32
HAS_GENRE == 64
HAS_YEAR == 128
HAS_COVER == 256
HAS_BPM == 512

\* The flag of each tag key that check_metadata looks up.
FlagOf(k) ==
    CASE k = "title" -> HAS_TITLE
      [] k = "artist" -> HAS_ARTIST
      [] k = "album" -> HAS_ALBUM
      [] k = "album_artist" -> HAS_ALBUM_ARTIST
      [] k = "track_nr" -> HAS_TRACK_NUMBER
      [] k = "disc_nr" -> HAS_DISC_NUMBER
      [] k = "genre" -> HAS_GENRE
      [] k = "year" -> HAS_YEAR
      [] k = "bpm" -> HAS_BPM

\* The eight fields check_metadata looks up itself (cover and bpm are delegated).
BasicKeys == Keys \ {"bpm"}

Sep == <<" ", "-", " ">>
SingleSuffix == <<" ", "-", " ", "S", "i", "n", "g", "l", "e">>

parse_filename(filename) ==
    LET base == SplitExt(filename)[1]
        parts == Split1(base, Sep)
    IN  IF Len(parts) < 2 THEN None
        ELSE T2(S(Strip(parts[1])), S(Strip(parts[2])))

\* (metadata_flags & flag) == 0, for a flag that is a single bit
is_missing(metadata_flags, flag) == (metadata_flags \div flag) % 2 = 0

\* get_track_nr: the int read, None, or Raise. For MP3 the text before "/" is
\* parsed, and text that is no number gives None (the ValueError of int() is
\* caught); a value that is no text has no `split`, and the AttributeError is
\* not caught. For M4A nothing is caught: `audio.tags["trkn"]` raises TypeError
\* on a file without tags and KeyError on tags without the key.
get_track_nr(f) ==
    LET ext == get_audio_file_extension(f)
        v == f.tags["track_nr"]
    IN  IF ext = NOT_SUPPORTED THEN None
        ELSE IF ext = MP3
             THEN IF f.hasTags /\ v # Absent
                  THEN IF IsStr(v) THEN ParseInt(Split1(v[2], <<"/">>)[1]) ELSE Raise
                  ELSE I(1)
        ELSE IF ~f.hasTags \/ v = Absent THEN Raise
        ELSE v

RECURSIVE OrFlags(_, _)
\* res |= flag, for each key of ks that is in the tags
OrFlags(f, ks) ==
    IF ks = {} THEN 0
    ELSE LET k == CHOOSE x \in ks : TRUE
         IN  (IF f.tags[k] # Absent THEN FlagOf(k) ELSE 0) + OrFlags(f, ks \ {k})

\* check_metadata that reports the cover alone once it finds one.
check_metadata_CoverAlone(f) ==
    IF get_audio_file_extension(f) = NOT_SUPPORTED THEN 0 - 1
    ELSE IF ~f.hasTags THEN 0
    ELSE IF has_cover(f) = B(TRUE) THEN HAS_COVER
    ELSE OrFlags(f, BasicKeys) + (IF has_bpm(f) = B(TRUE) THEN HAS_BPM ELSE 0)

check_metadata(f) ==
    IF get_audio_file_extension(f) = NOT_SUPPORTED THEN 0 - 1
    ELSE IF ~f.hasTags THEN 0
    ELSE OrFlags(f, BasicKeys)
         + (IF has_cover(f) = B(TRUE) THEN HAS_COVER ELSE 0)
         + (IF has_bpm(f) = B(TRUE) THEN HAS_BPM ELSE 0)

\* `if value: ...[key] = value`, for a value the codec takes.
SetIf(tags, k, v) == IF Truthy(v) THEN [tags EXCEPT ![k] = v] ELSE tags

\* Lines 136-206. The values come from add_metadata: texts from parse_filename
\* and ask_input_str, numbers (int) from ask_input_int and the literal 1 for
\* disc_nr. A number goes to the codec in the place of a text in TRCK, TPOS and
\* TYER (`text=track_nr`, `text=disc_nr`, `text=year`, lines 182, 185, 191) and in
\* "\xa9day" (line 205); "trkn" and "disk" are given as pairs of numbers (lines
\* 202-203). What the codec does with a number for a text is the codec's: it
\* stores it (`strict` false), or it refuses it with an exception raised in the
\* frame's constructor, in the assignment or in save(), in every case before
\* anything is written to the file (`strict` true), and nothing in
\* set_basic_metadata catches it. The result is the file on disk and whether
\* an exception left the function.
set_basic_metadata(f, title, artist, album, album_artist, track_nr, disc_nr, genre, year, strict) ==
    LET ext == get_audio_file_extension(f)
        number(v) == IsInt(v) /\ Truthy(v)
        numberForText == IF ext = MP3
                         THEN number(track_nr) \/ number(disc_nr) \/ number(year)
                         ELSE number(year)
    IN  IF ext = NOT_SUPPORTED THEN [file |-> f, raised |-> FALSE]
        ELSE IF strict /\ numberForText THEN [file |-> f, raised |-> TRUE]
        ELSE [file |-> [f EXCEPT
                !.hasTags = TRUE,
                !.tags = SetIf(SetIf(SetIf(SetIf(SetIf(SetIf(SetIf(SetIf(f.tags,
                            "title", title), "artist", artist), "album", album),
                            "album_artist", album_artist), "track_nr", track_nr),
                            "disc_nr", disc_nr), "genre", genre), "year", year)],
              raised |-> FALSE]

----------------------------------------------------------------------------
(* add_metadata: one call runs from "call" through the prompts it blocks at  *)
(* to "save"; its locals live in loc between the prompts.                   *)

NoLocals == [metadata_flags |-> 0, parsed_info |-> None, title |-> None,
             artist |-> None, default_album |-> None, album |-> None,
             album_artist |-> None, default_track_nr |-> None, track_nr |-> None,
             genre |-> None, year |-> None]

DefaultYear == 2025

\* The lines typed at the prompts, and the picker's and the beat tracker's outcomes.
AlbumAnswers == {Interrupt, Line(<<>>), Line(<<"Q">>)}
AlbumArtistAnswers == {Interrupt, Line(<<>>), Line(<<"Z">>)}
TrackAnswers == {Interrupt, Line(<<>>), Line(<<"2">>), Line(<<"x">>)}
GenreAnswers == {Interrupt, Line(<<>>), Line(<<"G">>)}
YearAnswers == {Interrupt, Line(<<>>), Line(<<"7">>)}
Picked(path) == <<"file", path>>
PickChoices(fs) == {None} \cup {Picked(PathOf(c)) : c \in fs}
BeatOutcomes ==
    {BeatError, Beat(<<>>), Beat(<<0>>), Beat(<<4>>), Beat(<<5>>), Beat(<<25>>), Beat(<<35>>)}

\* The record of one add_metadata call: the file and the image files before it,
\* the flags it computed, what parse_filename gave, whether the file was skipped,
\* the prompts it issued, what was picked, the beat tracker's outcome and how
\* often it ran, what the call returned (None while it runs), whether
\* set_basic_metadata saved the tags, and the file the call left.
NewCall(f, fs) ==
    [pre |-> f, preFs |-> fs, flags |-> check_metadata(f),
     parsed |-> parse_filename(f.name), skipped |-> FALSE, prompts |-> <<>>,
     picked |-> None, beat |-> None, ran |-> 0, ret |-> None, saved |-> FALSE,
     post |-> f]
Prompted(name, default, inp, r) ==
    [name |-> name, default |-> default, inp |-> inp, result |-> r[1], value |-> r[2]]
LogPrompt(e) == [calls EXCEPT ![idx].prompts = Append(@, e)]

\* Return with the loop of add_metadata_all going on after a Stop.
Return_IgnoringStop(ret) ==
    /\ loc' = NoLocals
    /\ IF status = "direct"
       THEN /\ status' = "returned"
            /\ pc' = "idle"
            /\ idx' = idx
       ELSE IF idx < Len(files)
       THEN /\ status' = status
            /\ pc' = "call"
            /\ idx' = idx + 1
       ELSE /\ status' = "done"
            /\ pc' = "idle"
            /\ idx' = idx

\* `return ret` from add_metadata, and what its caller does next: the loop of
\* add_metadata_all goes on to the next file or returns; a direct caller is done.
Return(ret) ==
    /\ loc' = NoLocals
    /\ IF status = "direct"
       THEN /\ status' = "returned"
            /\ pc' = "idle"
            /\ idx' = idx
       ELSE IF ~ret
       THEN /\ status' = "stopped"
            /\ pc' = "idle"
            /\ idx' = idx
       ELSE IF idx < Len(files)
       THEN /\ status' = status
            /\ pc' = "call"
            /\ idx' = idx + 1
       ELSE /\ status' = "done"
            /\ pc' = "idle"
            /\ idx' = idx

\* An exception leaves add_metadata: add_metadata_all catches nothing (lines
\* 330-337), so its loop ends there as well.
Raised ==
    /\ loc' = NoLocals
    /\ status' = "raised"
    /\ pc' = "idle"
    /\ idx' = idx

\* Lines 276-280: the year prompt, or on to the save.
AtYear(l) ==
    IF is_missing(l.metadata_flags, HAS_YEAR)
    THEN [pc |-> "year", loc |-> l]
    ELSE [pc |-> "save", loc |-> l]

\* Lines 270-274: the genre prompt, or on.
AtGenre(l) ==
    IF is_missing(l.metadata_flags, HAS_GENRE)
    THEN [pc |-> "genre", loc |-> l]
    ELSE AtYear(l)

\* Lines 258-268: the default track number, then the prompt or track_nr = 1.
\* An exception of get_track_nr leaves the call (pc "raise"): it is called with
\* the track-number bit set, that is with the key in the tags, and raises there
\* only on an MP3 value that is no text, which no file holds before a save.
AtTrack(f, l) ==
    LET raw == IF ~is_missing(l.metadata_flags, HAS_TRACK_NUMBER)
               THEN get_track_nr(f) ELSE None
        default_track_nr == IF Truthy(raw) THEN raw ELSE I(1)
    IN  IF raw = Raise THEN [pc |-> "raise", loc |-> l]
        ELSE IF l.album # l.default_album \/ default_track_nr # I(1)
        THEN [pc |-> "track", loc |-> [l EXCEPT !.default_track_nr = default_track_nr]]
        ELSE AtGenre([l EXCEPT !.default_track_nr = default_track_nr, !.track_nr = I(1)])

\* Line 253: the album-artist prompt, or on to the genre.
AtAlbumArtist(l) ==
    IF is_missing(l.metadata_flags, HAS_ALBUM_ARTIST) \/ l.album # l.default_album
    THEN [pc |-> "album_artist", loc |-> l]
    ELSE AtGenre(l)

\* Line 248: the album prompt, or on.
AtAlbum(l) ==
    IF is_missing(l.metadata_flags, HAS_ALBUM)
    THEN [pc |-> "album", loc |-> l]
    ELSE AtAlbumArtist(l)

\* Lines 227-247: the checks that skip the file, then the locals.
Call ==
    /\ status \in {"run", "direct"}
    /\ pc = "call"
    /\ LET f == files[idx]
           metadata_flags == check_metadata(f)
           parsed_info == parse_filename(f.name)
           skip == \/ metadata_flags < 0
                   \/ Truthy(args.used_dir) /\ ~valid_dir_path(args.used_dir)
                   \/ Truthy(args.move_to_dir) /\ ~valid_dir_path(args.move_to_dir)
                   \/ parsed_info = None
           l == [NoLocals EXCEPT
                   !.metadata_flags = metadata_flags,
                   !.parsed_info = parsed_info,
                   !.title = IF is_missing(metadata_flags, HAS_TITLE)
                             THEN parsed_info[3] ELSE None,
                   !.artist = IF is_missing(metadata_flags, HAS_ARTIST)
                              THEN parsed_info[2] ELSE None,
                   !.default_album = S(parsed_info[3][2] \o SingleSuffix)]
       IN  IF skip
           THEN /\ calls' = Append(calls, [NewCall(f, coverFs) EXCEPT !.skipped = TRUE,
                                                                 !.ret = B(TRUE)])
                /\ Return(TRUE)
           ELSE /\ calls' = Append(calls, NewCall(f, coverFs))
                /\ pc' = AtAlbum(l).pc
                /\ loc' = AtAlbum(l).loc
                /\ UNCHANGED <<idx, status>>
    /\ UNCHANGED <<files, coverFs, args, tm>>

\* Answered with the EXIT result handled like any other.
Answered_IgnoringExit(name, default, inp, r, next) ==
    /\ calls' = LogPrompt(Prompted(name, default, inp, r))
    /\ pc' = next.pc
    /\ loc' = next.loc
    /\ UNCHANGED <<idx, status>>

\* A prompt answered: EXIT returns False, anything else goes on at `next`.
Answered(name, default, inp, r, next) ==
    IF r[1] = EXIT
    THEN /\ calls' = [LogPrompt(Prompted(name, default, inp, r)) EXCEPT ![idx].ret = B(FALSE)]
         /\ Return(FALSE)
    ELSE /\ calls' = LogPrompt(Prompted(name, default, inp, r))
         /\ pc' = next.pc
         /\ loc' = next.loc
         /\ UNCHANGED <<idx, status>>

AnswerAlbum ==
    /\ pc = "album"
    /\ \E inp \in AlbumAnswers :
          LET r == ask_input_str(loc.default_album, inp)
          IN  Answered("album", loc.default_album, inp, r,
                       AtAlbumArtist([loc EXCEPT !.album = r[2]]))
    /\ UNCHANGED <<files, coverFs, args, tm>>

AnswerAlbumArtist ==
    /\ pc = "album_artist"
    /\ \E inp \in AlbumArtistAnswers :
          LET r == ask_input_str(loc.parsed_info[2], inp)
              next == AtTrack(files[idx], [loc EXCEPT !.album_artist = r[2]])
          IN  IF r[1] # EXIT /\ next.pc = "raise"
              THEN /\ calls' = [LogPrompt(Prompted("album_artist", loc.parsed_info[2],
                                                   inp, r)) EXCEPT ![idx].ret = Raise]
                   /\ Raised
              ELSE Answered("album_artist", loc.parsed_info[2], inp, r, next)
    /\ UNCHANGED <<files, coverFs, args, tm>>

AnswerTrack ==
    /\ pc = "track"
    /\ \E inp \in TrackAnswers :
          LET r == ask_input_int(loc.default_track_nr, inp)
          IN  Answered("track", loc.default_track_nr, inp, r,
                       AtGenre([loc EXCEPT !.track_nr = r[2]]))
    /\ UNCHANGED <<files, coverFs, args, tm>>

AnswerGenre ==
    /\ pc = "genre"
    /\ \E inp \in GenreAnswers :
          LET r == ask_input_str(S(<<>>), inp)
          IN  Answered("genre", S(<<>>), inp, r, AtYear([loc EXCEPT !.genre = r[2]]))
    /\ UNCHANGED <<files, coverFs, args, tm>>

AnswerYear ==
    /\ pc = "year"
    /\ \E inp \in YearAnswers :
          LET r == ask_input_int(I(DefaultYear), inp)
          IN  Answered("year", I(DefaultYear), inp, r,
                       [pc |-> "save", loc |-> [loc EXCEPT !.year = r[2]]])
    /\ UNCHANGED <<files, coverFs, args, tm>>

\* Lines 287-297, once select_cover has given cover_path (None when it was not
\* called): the cover is embedded in f1, the file with its tags saved, then the
\* tempo is added and the file moved.
Finish(f1, picked, cover_path) ==
    LET noBpm == is_missing(loc.metadata_flags, HAS_BPM)
    IN  \E beat \in IF noBpm THEN BeatOutcomes ELSE {None} :
           LET c == IF cover_path # None
                    THEN add_cover(f1, coverFs, cover_path[2], args.used_dir)
                    ELSE [file |-> f1, fs |-> coverFs, raised |-> FALSE]
               b == IF noBpm /\ ~c.raised THEN add_bpm(c.file, beat)
                    ELSE [file |-> c.file, ran |-> 0, raised |-> FALSE]
               f4 == IF Truthy(args.move_to_dir) /\ ~c.raised /\ ~b.raised
                     THEN move_file(b.file, args.move_to_dir[2])
                     ELSE b.file
           IN  /\ files' = [files EXCEPT ![idx] = f4]
               /\ coverFs' = c.fs
               /\ calls' = [calls EXCEPT ![idx].picked = picked,
                                         ![idx].saved = TRUE,
                                         ![idx].beat = beat,
                                         ![idx].ran = b.ran,
                                         ![idx].ret = IF c.raised \/ b.raised
                                                      THEN Raise ELSE B(TRUE),
                                         ![idx].post = f4]
               /\ IF c.raised \/ b.raised THEN Raised ELSE Return(TRUE)

\* Lines 283-286: set_basic_metadata saves the tags, or the codec's exception
\* leaves it and, nothing catching it, add_metadata and the loop of
\* add_metadata_all, with the file as it was. After the save, when the cover is
\* missing and the cover directory is valid, select_cover opens the picker and
\* the call waits in it, the saved tags being on disk; otherwise the call goes
\* on to its end.
Save ==
    /\ pc = "save"
    /\ \E strict \in BOOLEAN :
          LET s == set_basic_metadata(files[idx], loc.title, loc.artist, loc.album,
                                      loc.album_artist, loc.track_nr, I(1),
                                      loc.genre, loc.year, strict)
          IN  IF s.raised
              THEN /\ calls' = [calls EXCEPT ![idx].ret = Raise]
                   /\ Raised
                   /\ UNCHANGED <<files, coverFs>>
              ELSE IF /\ is_missing(loc.metadata_flags, HAS_COVER)
                      /\ valid_dir_path(args.cover_dir)
              THEN /\ files' = [files EXCEPT ![idx] = s.file]
                   /\ calls' = [calls EXCEPT ![idx].saved = TRUE, ![idx].post = s.file]
                   /\ pc' = "pick"
                   /\ UNCHANGED <<coverFs, idx, status, loc>>
              ELSE Finish(s.file, None, None)
    /\ UNCHANGED <<args, tm>>

\* Lines 78-93 and 287-297: the picker returns and the call goes on to its end,
\* or an exception leaves the picker and with it the call.
SelectCover ==
    /\ pc = "pick"
    /\ \E picked \in PickChoices(coverFs) \cup {Interrupt} :
          IF picked = Interrupt
          THEN /\ calls' = [calls EXCEPT ![idx].picked = picked, ![idx].ret = Raise]
               /\ Raised
               /\ UNCHANGED <<files, coverFs>>
          ELSE Finish(files[idx], picked,
                      select_cover(coverFs, args.cover_dir, picked))
    /\ UNCHANGED <<args, tm>>

----------------------------------------------------------------------------
(* add_metadata_all *)

\* Lines 313-327: the directories are validated and the files listed; the loop
\* starts at the first file of the listing.
Begin ==
    /\ status = "init"
    /\ IF \/ ~valid_dir_path(args.cover_dir)
          \/ Truthy(args.used_dir) /\ ~valid_dir_path(args.used_dir)
          \/ Truthy(args.move_to_dir) /\ ~valid_dir_path(args.move_to_dir)
          \/ files = <<>>
       THEN status' = "done" /\ pc' = "idle" /\ idx' = idx
       ELSE status' = "run" /\ pc' = "call" /\ idx' = 1
    /\ UNCHANGED <<files, coverFs, args, loc, calls, tm>>

----------------------------------------------------------------------------
(* The files, image files and arguments the runs start from *)

MaxFiles == 3

Name_A_T_m4a == <<"A", " ", "-", " ", "T", ".", "m", "4", "a">>
Name_B_U_mp3 == <<"B", " ", "-", " ", "U", ".", "M", "P", "3">>
Name_A_B_C_mp3 == <<"A", " ", "-", " ", "B", " ", "-", " ", "C", ".", "m", "p", "3">>
Name_NoSep_mp3 == <<"N", "o", "S", "e", "p", ".", "m", "p", "3">>
Name_notes_txt == <<"n", "o", "t", "e", "s", ".", "t", "x", "t">>

AudioFile(name, hasTags, tags, pics) ==
    [name |-> name, dir |-> AudioDir, exists |-> TRUE,
     hasTags |-> hasTags, tags |-> tags, pics |-> pics]

\* The stored form of a number: text in an MP3 frame, an int in an M4A atom.
Num(ext, n) == IF ext = M4A THEN I(n) ELSE S(IntToStr(n))

ExtOfName(name) == get_audio_file_extension(AudioFile(name, FALSE, NoFrames, <<>>))

\* A file with every field, a cover and a tempo.
FullTags(ext, album) ==
    [k \in Keys |->
        CASE k = "title" -> S(<<"X">>)
          [] k = "artist" -> S(<<"Y">>)
          [] k = "album" -> album
          [] k = "album_artist" -> S(<<"W">>)
          [] k = "track_nr" -> Num(ext, 3)
          [] k = "disc_nr" -> Num(ext, 2)
          [] k = "genre" -> S(<<"R">>)
          [] k = "year" -> S(<<"9">>)
          [] k = "bpm" -> Num(ext, 90)]

\* The album "{title} - Single" of a file name.
SingleOf(name) == S(parse_filename(name)[3][2] \o SingleSuffix)

\* Other values a field can hold: missing, empty, zero, not a number.
AltValues(ext, k) ==
    CASE k = "album" -> {Absent, S(<<"Q">>)}
      [] k = "track_nr" -> IF ext = M4A THEN {Absent, I(1), I(0)}
                           ELSE {Absent, S(<<"1">>), S(<<"x">>), S(<<"3", "/", "9">>)}
      [] k = "disc_nr" -> {Absent}
      [] k = "bpm" -> IF ext = M4A THEN {Absent, I(0)} ELSE {Absent, S(<<"0">>), S(<<"x">>)}
      [] OTHER -> {Absent, S(<<>>)}

\* The files of the batch runs: few prompts each, one without a cover, and one
\* that is no audio file.
BatchFiles ==
    { AudioFile(Name_A_T_m4a, TRUE,
                [FullTags(M4A, S(<<"Q">>)) EXCEPT !["genre"] = Absent], <<>>),
      AudioFile(Name_B_U_mp3, TRUE, FullTags(MP3, Absent), <<"img0">>),
      AudioFile(Name_A_B_C_mp3, TRUE,
                [FullTags(MP3, S(<<"Q">>)) EXCEPT !["year"] = Absent], <<"img0">>),
      AudioFile(Name_notes_txt, FALSE, NoFrames, <<>>) }

\* Directory listings: up to MaxFiles files with different names.
Listings ==
    {l \in SeqsUpTo(BatchFiles, MaxFiles) :
        \A i, j \in 1..Len(l) : i # j => l[i].name # l[j].name}

\* The files a single add_metadata call is run on: untagged, fully tagged, and
\* each of the two with one field changed.
FileConfigs(name) ==
    LET ext == ExtOfName(name)
        full == FullTags(ext, SingleOf(name))
    IN  {AudioFile(name, FALSE, NoFrames, <<>>), AudioFile(name, TRUE, NoFrames, <<>>)}
        \cup {AudioFile(name, TRUE, full, p) : p \in {<<>>, <<"img0">>}}
        \cup {AudioFile(name, TRUE, [full EXCEPT ![k] = v], <<"img0">>) :
                <<k, v>> \in UNION {{<<k, v>> : v \in AltValues(ext, k)} : k \in Keys}}
        \cup {AudioFile(name, TRUE, [NoFrames EXCEPT ![k] = v], <<>>) :
                <<k, v>> \in UNION {{<<k, v>> : v \in AltValues(ext, k) \cup {full[k]}} : k \in Keys}}

CoverA == [dir |-> "covers", name |-> <<"a", ".", "j", "p", "g">>, data |-> "img1"]
CoverB == [dir |-> "covers", name |-> <<"b", ".", "P", "N", "G">>, data |-> "img2"]
CoverTxt == [dir |-> "covers", name |-> <<"n", ".", "t", "x", "t">>, data |-> "text"]
UsedA == [dir |-> "used", name |-> <<"a", ".", "j", "p", "g">>, data |-> "img0"]
UsedC == [dir |-> "used", name |-> <<"c", ".", "j", "p", "e", "g">>, data |-> "img3"]

NoDir == D("nodir")
DefaultArgs == [cover_dir |-> D("covers"), used_dir |-> D("used"), move_to_dir |-> None]
ArgChoices ==
    [cover_dir : {D("covers"), NoDir}, used_dir : {None, D("used"), NoDir},
     move_to_dir : {None, D("moved"), NoDir}]

NoPrompt == [fn |-> "none"]

Idle == /\ idx = 0
        /\ pc = "idle"
        /\ loc = NoLocals
        /\ calls = <<>>
        /\ tm = NoPrompt

\* The arguments of a batch: two that pass the validation of lines 315-320 and
\* one that fails each of its three checks.
BatchArgs ==
    { DefaultArgs,
      [DefaultArgs EXCEPT !.used_dir = None, !.move_to_dir = D("moved")],
      [DefaultArgs EXCEPT !.cover_dir = NoDir],
      [DefaultArgs EXCEPT !.used_dir = NoDir],
      [DefaultArgs EXCEPT !.move_to_dir = NoDir] }

\* add_metadata_all on a directory listing.
Init ==
    /\ files \in Listings
    /\ coverFs = {CoverA}
    /\ args \in BatchArgs
    /\ status = "init"
    /\ Idle

Next ==
    \/ Begin
    \/ Call
    \/ AnswerAlbum
    \/ AnswerAlbumArtist
    \/ AnswerTrack
    \/ AnswerGenre
    \/ AnswerYear
    \/ Save
    \/ SelectCover

Spec == Init /\ [][Next]_vars

----------------------------------------------------------------------------
(* add_metadata called on one file *)

\* The runs of a single call: every file configuration with the default
\* arguments, and two files with every choice of arguments and image files.
FileRuns ==
    {<<f, DefaultArgs, {CoverA, CoverB}>> :
        f \in UNION {FileConfigs(n) : n \in {Name_A_T_m4a, Name_B_U_mp3, Name_A_B_C_mp3}}}
    \cup
    {<<f, a, fs>> :
        f \in {AudioFile(Name_B_U_mp3, FALSE, NoFrames, <<>>),
               AudioFile(Name_A_T_m4a, TRUE,
                         [FullTags(M4A, SingleOf(Name_A_T_m4a)) EXCEPT !["bpm"] = Absent],
                         <<>>)},
        a \in ArgChoices,
        fs \in {{CoverA, CoverB}, {CoverA, UsedA, CoverTxt}, {UsedC}}}

Direct ==
    /\ status = "direct"
    /\ idx = 1
    /\ pc = "call"
    /\ loc = NoLocals
    /\ calls = <<>>
    /\ tm = NoPrompt

InitFile ==
    /\ \E r \in FileRuns : files = <<r[1]>> /\ args = r[2] /\ coverFs = r[3]
    /\ Direct

NextFile ==
    \/ Call
    \/ AnswerAlbum
    \/ AnswerAlbumArtist
    \/ AnswerTrack
    \/ AnswerGenre
    \/ AnswerYear
    \/ Save
    \/ SelectCover

SpecFile == InitFile /\ [][NextFile]_vars

\* add_metadata with every choice of directory arguments on a file that is
\* not there, an unsupported file, and supported files with and without tags.
SkipFiles ==
    {[AudioFile(Name_B_U_mp3, FALSE, NoFrames, <<>>) EXCEPT !.exists = FALSE],
     AudioFile(Name_notes_txt, FALSE, NoFrames, <<>>),
     AudioFile(Name_B_U_mp3, FALSE, NoFrames, <<>>),
     AudioFile(Name_A_T_m4a, TRUE,
               [FullTags(M4A, Absent) EXCEPT !["genre"] = Absent, !["bpm"] = Absent], <<>>)}

InitSkip ==
    /\ files \in {<<f>> : f \in SkipFiles}
    /\ args \in ArgChoices
    /\ coverFs = {CoverA, CoverB}
    /\ Direct

SpecSkip == InitSkip /\ [][NextFile]_vars

\* add_metadata on files of every name up to MaxName characters before the
\* extension; the file lacks title, artist, album, genre, year and cover.
MaxName == 5
NameChars == {"A", " ", "-", "."}
Names == {b \o <<".", "m", "p", "3">> : b \in SeqsUpTo(NameChars, MaxName)}
            \cup {Name_A_B_C_mp3, Name_NoSep_mp3}

InitName ==
    /\ \E n \in Names :
          files = <<AudioFile(n, TRUE,
                              [FullTags(MP3, Absent) EXCEPT !["title"] = Absent,
                                                            !["artist"] = Absent,
                                                            !["genre"] = Absent,
                                                            !["year"] = Absent],
                              <<>>)>>
    /\ args = [DefaultArgs EXCEPT !.move_to_dir = D("moved")]
    /\ coverFs = {CoverA}
    /\ Direct

SpecName == InitName /\ [][NextFile]_vars

\* add_metadata_all on a directory that holds one file named
\* "<artist> - <title><ext>" without tags, with nothing in the used directory.
DefArtists == {<<"A">>, <<"D", " ", "P">>}
DefTitles == {<<"T">>, <<"O", "-", "M">>}
DefExts == {<<".", "m", "p", "3">>, <<".", "M", "4", "A">>}

InitDefaults ==
    /\ \E a \in DefArtists, t \in DefTitles, e \in DefExts, h \in BOOLEAN :
          files = <<AudioFile(a \o Sep \o t \o e, h, NoFrames, <<>>)>>
    /\ coverFs = {CoverA, CoverB}
    /\ args = DefaultArgs
    /\ status = "init"
    /\ Idle

SpecDefaults == InitDefaults /\ [][Next]_vars

----------------------------------------------------------------------------
(* check_metadata, add_bpm and add_cover called on their own *)

Api ==
    /\ status = "api"
    /\ idx = 1
    /\ pc = "idle"
    /\ loc = NoLocals
    /\ calls = <<>>
    /\ tm = NoPrompt

\* The values check_metadata can meet under a key: missing, empty, zero, not a
\* number, or a usable value.
PresenceValues(ext, k) ==
    CASE k = "track_nr" -> {Absent, Num(ext, 0), Num(ext, 3)}
      [] k = "disc_nr" -> {Absent, Num(ext, 0)}
      [] k = "year" -> {Absent, S(<<"x">>)}
      [] k = "bpm" -> {Absent, Num(ext, 0), Num(ext, 90), S(<<"x">>)}
      [] k \in {"title", "album"} -> {Absent, S(<<>>), S(<<"X">>)}
      [] OTHER -> {Absent, S(<<"X">>)}

\* check_metadata on a file with any combination of these values, or without tags.
InitPresence ==
    /\ \E n \in {Name_A_T_m4a, Name_B_U_mp3, Name_notes_txt} :
          \/ files = <<AudioFile(n, FALSE, NoFrames, <<>>)>>
          \/ /\ n # Name_notes_txt
             /\ \E a \in PresenceValues(ExtOfName(n), "title"),
                   b \in PresenceValues(ExtOfName(n), "artist"),
                   c \in PresenceValues(ExtOfName(n), "album"),
                   d \in PresenceValues(ExtOfName(n), "album_artist"),
                   e \in PresenceValues(ExtOfName(n), "track_nr"),
                   g \in PresenceValues(ExtOfName(n), "disc_nr"),
                   h \in PresenceValues(ExtOfName(n), "genre"),
                   y \in PresenceValues(ExtOfName(n), "year"),
                   t \in PresenceValues(ExtOfName(n), "bpm"),
                   p \in {<<>>, <<"img0">>} :
                   files = <<AudioFile(n, TRUE,
                               [title |-> a, artist |-> b, album |-> c, album_artist |-> d,
                                track_nr |-> e, disc_nr |-> g, genre |-> h, year |-> y,
                                bpm |-> t], p)>>
    /\ args = DefaultArgs
    /\ coverFs = {}
    /\ Api

CheckMetadataCall ==
    /\ status = "api"
    /\ calls = <<>>
    /\ calls' = <<[op |-> "check_metadata", pre |-> files[1],
                   res |-> check_metadata(files[1])]>>
    /\ UNCHANGED <<files, coverFs, args, idx, status, pc, loc, tm>>

NextPresence == CheckMetadataCall

SpecPresence == InitPresence /\ [][NextPresence]_vars

\* check_metadata before and after one field is added to the tags of a file by
\* a tagger: a key that was missing gets a value, or a picture is embedded.
InitAddField ==
    /\ \E n \in {Name_A_T_m4a, Name_B_U_mp3} :
          \/ files = <<AudioFile(n, FALSE, NoFrames, <<>>)>>
          \/ \E present \in SUBSET Keys, p \in {<<>>, <<"img0">>} :
                files = <<AudioFile(n, TRUE,
                            [k \in Keys |-> IF k \in present THEN FullTags(ExtOfName(n), S(<<>>))[k]
                                            ELSE Absent], p)>>
    /\ args = DefaultArgs
    /\ coverFs = {}
    /\ Api

CheckMetadataStep ==
    /\ status = "api"
    /\ Len(calls) \in {0, 2}
    /\ calls' = Append(calls, [op |-> "check_metadata", pre |-> files[1],
                               res |-> check_metadata(files[1])])
    /\ UNCHANGED <<files, coverFs, args, idx, status, pc, loc, tm>>

AddField ==
    /\ status = "api"
    /\ Len(calls) = 1
    /\ LET f == files[1]
       IN  \/ \E k \in Keys :
                /\ f.tags[k] = Absent
                /\ \E v \in PresenceValues(ExtOfName(f.name), k) \ {Absent} :
                      /\ files' = <<[f EXCEPT !.hasTags = TRUE, !.tags[k] = v]>>
                      /\ calls' = Append(calls, [op |-> "add_field", pre |-> f, key |-> k])
           \/ /\ f.pics = <<>>
              /\ files' = <<[f EXCEPT !.hasTags = TRUE, !.pics = <<"img1">>]>>
              /\ calls' = Append(calls, [op |-> "add_field", pre |-> f, key |-> "cover"])
    /\ UNCHANGED <<coverFs, args, idx, status, pc, loc, tm>>

NextAddField ==
    \/ CheckMetadataStep
    \/ AddField

SpecAddField == InitAddField /\ [][NextAddField]_vars

MaxCalls == 2

BpmFiles ==
    {AudioFile(n, FALSE, NoFrames, <<>>) : n \in {Name_A_T_m4a, Name_B_U_mp3, Name_notes_txt}}
    \cup UNION {{AudioFile(n, TRUE, [NoFrames EXCEPT !["bpm"] = v], <<>>) :
                    v \in PresenceValues(ExtOfName(n), "bpm")} :
                n \in {Name_A_T_m4a, Name_B_U_mp3}}

\* The directories add_bpm and add_bpm_all run on: one file, or a file without
\* a tempo followed by a second file, in the same directory or in another.
BpmDirs ==
    {<<f>> : f \in BpmFiles}
    \cup {<<f, [AudioFile(Name_A_B_C_mp3, t, NoFrames, <<>>) EXCEPT !.dir = d]>> :
            f \in {g \in BpmFiles : g.tags["bpm"] = Absent},
            t \in BOOLEAN, d \in {AudioDir, "moved"}}

InitBpm ==
    /\ files \in BpmDirs
    /\ args = DefaultArgs
    /\ coverFs = {}
    /\ Api

AddBpmCall ==
    /\ status = "api"
    /\ Len(calls) < MaxCalls
    /\ \E beat \in BeatOutcomes :
          LET r == add_bpm(files[1], beat)
          IN  /\ files' = [files EXCEPT ![1] = r.file]
              /\ calls' = Append(calls, [op |-> "add_bpm", pre |-> files[1], beat |-> beat,
                                         ran |-> r.ran, raised |-> r.raised])
    /\ UNCHANGED <<coverFs, args, idx, status, pc, loc, tm>>

\* add_bpm_all on a directory that holds the files, on one that holds none, or
\* on a path that is no directory.
AddBpmAll ==
    /\ status = "api"
    /\ Len(calls) < MaxCalls
    /\ \E dir_path \in {D(AudioDir), D("moved"), NoDir} :
       \E beats \in [1..Len(files) -> {BeatError, Beat(<<25>>)}] :
          LET r == add_bpm_all(files, dir_path, beats)
          IN  /\ files' = r.files
              /\ calls' = Append(calls, [op |-> "add_bpm_all", pre |-> files[1],
                                         files |-> files, dir_path |-> dir_path,
                                         beats |-> beats, ran |-> r.ran,
                                         raised |-> r.raised])
    /\ UNCHANGED <<coverFs, args, idx, status, pc, loc, tm>>

NextBpm ==
    \/ AddBpmCall
    \/ AddBpmAll

SpecBpm == InitBpm /\ [][NextBpm]_vars

\* has_bpm on a file with any tempo text of up to MaxTempo characters (MP3), any
\* small tempo number (M4A), no tempo, or no tags at all.
MaxTempo == 3
TempoChars == {"0", "7", "-", "x", " "}
TempoFiles ==
    {AudioFile(n, FALSE, NoFrames, <<>>) : n \in {Name_A_T_m4a, Name_B_U_mp3, Name_notes_txt}}
    \cup {AudioFile(n, TRUE, NoFrames, <<>>) : n \in {Name_A_T_m4a, Name_B_U_mp3}}
    \cup {AudioFile(Name_B_U_mp3, TRUE, [NoFrames EXCEPT !["bpm"] = S(t)], <<>>) :
            t \in SeqsUpTo(TempoChars, MaxTempo)}
    \cup {AudioFile(Name_A_T_m4a, TRUE, [NoFrames EXCEPT !["bpm"] = I(n)], <<>>) :
            n \in (0 - MaxTempo)..MaxTempo}

InitHasBpm ==
    /\ files \in {<<f>> : f \in TempoFiles}
    /\ args = DefaultArgs
    /\ coverFs = {}
    /\ Api

HasBpmCall ==
    /\ status = "api"
    /\ calls = <<>>
    /\ calls' = <<[op |-> "has_bpm", pre |-> files[1], res |-> has_bpm(files[1])]>>
    /\ UNCHANGED <<files, coverFs, args, idx, status, pc, loc, tm>>

NextHasBpm == HasBpmCall

SpecHasBpm == InitHasBpm /\ [][NextHasBpm]_vars

CoverFiles ==
    {AudioFile(n, FALSE, NoFrames, <<>>) : n \in {Name_A_T_m4a, Name_B_U_mp3, Name_notes_txt}}
    \cup {AudioFile(n, TRUE, NoFrames, p) :
            n \in {Name_A_T_m4a, Name_B_U_mp3}, p \in {<<>>, <<"img0">>}}

\* The directories add_cover and add_cover_all run on: one file, or two.
CoverDirs ==
    {<<f>> : f \in CoverFiles}
    \cup {<<f, AudioFile(Name_A_B_C_mp3, TRUE, NoFrames, <<>>)>> :
            f \in {AudioFile(Name_B_U_mp3, TRUE, NoFrames, <<>>),
                   AudioFile(Name_A_T_m4a, FALSE, NoFrames, <<>>),
                   AudioFile(Name_notes_txt, FALSE, NoFrames, <<>>)}}

InitCover ==
    /\ files \in CoverDirs
    /\ args \in {[DefaultArgs EXCEPT !.used_dir = u] : u \in {None, D("used"), D("covers"), NoDir}}
    /\ coverFs \in {{CoverA, CoverB}, {CoverA, UsedA, CoverTxt}, {CoverB, UsedC}}
    /\ Api

\* add_cover with any path: an image file on disk, or a path to nothing.
AddCoverCall ==
    /\ status = "api"
    /\ pc = "idle"
    /\ Len(calls) < MaxCalls
    /\ \E cover_path \in {PathOf(c) : c \in coverFs \cup {UsedC}} :
          LET r == add_cover(files[1], coverFs, cover_path, args.used_dir)
          IN  /\ files' = [files EXCEPT ![1] = r.file]
              /\ coverFs' = r.fs
              /\ calls' = Append(calls, [op |-> "add_cover", pre |-> files[1],
                                         preFs |-> coverFs, cover_path |-> cover_path,
                                         raised |-> r.raised])
    /\ UNCHANGED <<args, idx, status, pc, loc, tm>>

\* os.walk(dir): the position of the next file listed under the directory
\* after position i, or 0 when there is none. A path that is no directory
\* lists nothing, and the directories hold no subdirectories.
NextListed(dir, i) ==
    LET later == {k \in (i + 1)..Len(files) :
                    /\ valid_dir_path(dir)
                    /\ files[k].exists
                    /\ files[k].dir = dir[2]}
    IN  IF later = {} THEN 0 ELSE CHOOSE k \in later : \A j \in later : k <= j

\* add_cover_all, lines 161-171: the two guards, then the walk of root_dir, a
\* global that only the script sets (to dir_path): called after an import it
\* is undefined and the walk raises NameError. In the walk select_cover opens
\* the picker for the first file when the cover directory is valid; when it is
\* not, select_cover gives None for every file and the call returns.
AddCoverAll ==
    /\ status = "api"
    /\ pc = "idle"
    /\ Len(calls) < MaxCalls
    /\ \E dir_path \in {D(AudioDir), NoDir} :
       \E root_dir \in {None, dir_path} :
          LET call == [op |-> "add_cover_all", pre |-> files[1], preFs |-> coverFs,
                       files |-> files, dir_path |-> dir_path, root_dir |-> root_dir,
                       picks |-> <<>>, done |-> FALSE, raised |-> FALSE]
              first == NextListed(root_dir, 0)
              end(raised) ==
                  /\ calls' = Append(calls, [call EXCEPT !.done = TRUE, !.raised = raised])
                  /\ UNCHANGED <<idx, pc, loc>>
          IN  IF Truthy(args.used_dir) /\ ~valid_dir_path(args.used_dir)
              THEN end(FALSE)
              ELSE IF ~valid_dir_path(dir_path) /\ ~valid_dir_path(args.cover_dir)
              THEN end(FALSE)
              ELSE IF root_dir = None
              THEN end(TRUE)
              ELSE IF first = 0 \/ ~valid_dir_path(args.cover_dir)
              THEN end(FALSE)
              ELSE /\ calls' = Append(calls, call)
                   /\ pc' = "walk"
                   /\ idx' = first
                   /\ loc' = [root_dir |-> root_dir]
    /\ UNCHANGED <<files, coverFs, args, status, tm>>

\* add_cover_all, lines 171-173: the picker returns for the file at idx, the
\* cover selected is added to it, and the picker opens for the next file of
\* the walk; or an exception leaves the picker or add_cover, and the call.
SelectCoverAll ==
    /\ status = "api"
    /\ pc = "walk"
    /\ \E picked \in PickChoices(coverFs) \cup {Interrupt} :
          LET cover_path == select_cover(coverFs, args.cover_dir, picked)
              r == IF picked # Interrupt /\ cover_path # None
                   THEN add_cover(files[idx], coverFs, cover_path[2], args.used_dir)
                   ELSE [file |-> files[idx], fs |-> coverFs, raised |-> picked = Interrupt]
              next == NextListed(loc.root_dir, idx)
              log == [calls EXCEPT ![Len(calls)].picks = Append(@, picked)]
          IN  /\ files' = [files EXCEPT ![idx] = r.file]
              /\ coverFs' = r.fs
              /\ IF r.raised
                 THEN /\ calls' = [log EXCEPT ![Len(calls)].done = TRUE,
                                              ![Len(calls)].raised = TRUE]
                      /\ pc' = "idle" /\ idx' = 1 /\ loc' = NoLocals
                 ELSE IF next = 0
                 THEN /\ calls' = [log EXCEPT ![Len(calls)].done = TRUE]
                      /\ pc' = "idle" /\ idx' = 1 /\ loc' = NoLocals
                 ELSE /\ calls' = log
                      /\ pc' = "walk" /\ idx' = next /\ loc' = loc
    /\ UNCHANGED <<args, status, tm>>

NextCover ==
    \/ AddCoverCall
    \/ AddCoverAll
    \/ SelectCoverAll

SpecCover == InitCover /\ [][NextCover]_vars

----------------------------------------------------------------------------
(* The prompts called on their own *)

MaxLine == 3
LineChars == {" ", "y", "e", "s", "n", "o", "Y", "1", "-"}
Inputs == {Interrupt} \cup {Line(l) : l \in SeqsUpTo(LineChars, MaxLine)}

InitPrompt ==
    /\ files = <<>>
    /\ args = DefaultArgs
    /\ coverFs = {}
    /\ status = "api"
    /\ idx = 0
    /\ pc = "idle"
    /\ loc = NoLocals
    /\ calls = <<>>
    /\ tm = NoPrompt

Asked(fn, default, inp, r) ==
    /\ tm' = [fn |-> fn, default |-> default, inp |-> inp, result |-> r[1], value |-> r[2]]
    /\ UNCHANGED <<files, coverFs, args, idx, status, pc, loc, calls>>

\* One prompt call per run.
AskInputStr ==
    /\ tm = NoPrompt
    /\ \E default \in {None, S(<<>>), S(<<"d">>)}, inp \in Inputs :
        Asked("ask_input_str", default, inp, ask_input_str(default, inp))

AskInputInt ==
    /\ tm = NoPrompt
    /\ \E default \in {None, I(0), I(7)}, inp \in Inputs :
        Asked("ask_input_int", default, inp, ask_input_int(default, inp))

AskInputBool ==
    /\ tm = NoPrompt
    /\ \E default \in {B(FALSE), B(TRUE)}, inp \in Inputs :
        Asked("ask_input_bool", default, inp, ask_input_bool(default, inp))

NextPrompt ==
    \/ AskInputStr
    \/ AskInputInt
    \/ AskInputBool

SpecPrompt == InitPrompt /\ [][NextPrompt]_vars

----------------------------------------------------------------------------
(* Properties *)

PromptsOf(c) == {c.prompts[j] : j \in 1..Len(c.prompts)}
Cancelled(c) == \E p \in PromptsOf(c) : p.inp = Interrupt
Issued(c, name) == \E p \in PromptsOf(c) : p.name = name

\* C1: add_metadata_all hands the files to add_metadata in listing order, and the
\* first call that returns False (a cancelled prompt) ends the batch: every
\* earlier call returned True and its file is as that call left it, the
\* cancelled file is as it was, and no later file is touched.
C1_StopEndsBatch ==
    LET n == Len(calls)
    IN  /\ n <= Len(files)
        /\ \A i \in 1..n : calls[i].pre.name = files[i].name
        /\ \A i \in 1..(n - 1) : calls[i].ret = B(TRUE)
        /\ \A i \in 1..n : calls[i].ret = B(TRUE) => files[i] = calls[i].post
        /\ \A i \in 1..n : calls[i].ret = B(FALSE) =>
              /\ status = "stopped"
              /\ i = n
              /\ files[i] = calls[i].pre
              /\ coverFs = calls[i].preFs
        /\ \A j \in (n + 1)..Len(files) : files[j] \in BatchFiles
        /\ status = "stopped" => n >= 1 /\ calls[n].ret = B(FALSE)

\* C1: the second of three files was cancelled after the first was changed.
C1_Witness ==
    /\ status = "stopped"
    /\ Len(files) = 3
    /\ Len(calls) = 2
    /\ files[1] # calls[1].pre
    /\ files[3].name = Name_A_B_C_mp3

\* C2: a call of add_metadata in which a prompt was interrupted returns False
\* and leaves the file's tags, cover, tempo and place, and the image files, as
\* they were.
C2_CancelWritesNothing ==
    \A i \in 1..Len(calls) :
        Cancelled(calls[i]) =>
            /\ calls[i].ret = B(FALSE)
            /\ files[i] = calls[i].pre
            /\ coverFs = calls[i].preFs
            /\ pc = "idle"

\* C2: the year prompt was interrupted after four prompts were answered.
C2_Witness ==
    /\ status = "returned"
    /\ Len(calls[1].prompts) = 5
    /\ calls[1].prompts[5].name = "year"
    /\ calls[1].prompts[5].inp = Interrupt
    /\ calls[1].prompts[1].inp = Line(<<"Q">>)

\* A stored value as text: a number and its decimal text are the same value.
Text(v) == IF IsInt(v) THEN S(IntToStr(v[2])) ELSE v

\* C3: after add_metadata, every field whose flag was set before the call holds
\* the value it held before.
C3_PresentFieldsKept ==
    \A i \in 1..Len(calls) :
        (calls[i].flags >= 0 /\ calls[i].ret = B(TRUE)) =>
            \A k \in BasicKeys :
                ~is_missing(calls[i].flags, FlagOf(k)) =>
                    Text(files[i].tags[k]) = Text(calls[i].pre.tags[k])

\* The album of the file once the album step is over: the tag when there is
\* one, else the answer to the album prompt.
ResolvedAlbum(c) ==
    IF ~is_missing(c.flags, HAS_ALBUM) THEN c.pre.tags["album"]
    ELSE (CHOOSE p \in PromptsOf(c) : p.name = "album").value

\* The call has decided whether to ask for the album artist: the album step is
\* behind it (the album is present, or its prompt was answered without a
\* cancellation) and the call is not waiting at the album prompt.
PastAlbum(i) ==
    /\ ~calls[i].skipped
    /\ i = Len(calls) => pc # "album"
    /\ \A p \in PromptsOf(calls[i]) : p.name = "album" => p.result # EXIT

\* C4: the album-artist prompt is issued if and only if the album-artist flag is
\* unset or the resolved album differs from "{title} - Single". A prompt that is
\* on the terminal waiting for its answer is an issued prompt.
C4_AlbumArtistPromptRule ==
    \A i \in 1..Len(calls) :
        PastAlbum(i) =>
            ((Issued(calls[i], "album_artist") \/ (i = Len(calls) /\ pc = "album_artist")) <=>
                \/ is_missing(calls[i].flags, HAS_ALBUM_ARTIST)
                \/ ResolvedAlbum(calls[i]) # SingleOf(calls[i].pre.name))

Bit(res, flag) == (res \div flag) % 2 = 1

\* A value that is there and is not empty, zero or, for a number, unparsable.
NonEmptyValue(k, v) ==
    /\ v \notin {Absent, S(<<>>)}
    /\ k \in {"track_nr", "disc_nr", "year", "bpm"} =>
          PyInt(v) # None /\ PyInt(v)[2] # 0

\* A tempo that int() reads as a positive number.
PositiveTempo(f) ==
    /\ f.hasTags
    /\ \/ IsInt(f.tags["bpm"]) /\ f.tags["bpm"][2] > 0
       \/ /\ IsStr(f.tags["bpm"])
          /\ f.tags["bpm"][2] # <<>>
          /\ \A j \in 1..Len(f.tags["bpm"][2]) : f.tags["bpm"][2][j] \in Digits
          /\ DigitsVal(f.tags["bpm"][2]) > 0

\* C5 as stated: check_metadata sets a field's bit if and only if the field is
\* present and its value is non-empty, non-zero and parsable.
C5_BitIffNonEmpty ==
    \A i \in 1..Len(calls) :
        (calls[i].op = "check_metadata" /\ calls[i].res >= 0) =>
            \A k \in Keys :
                Bit(calls[i].res, FlagOf(k)) <=>
                    (calls[i].pre.hasTags /\ NonEmptyValue(k, calls[i].pre.tags[k]))

\* What check_metadata computes where C5 fails: -1 for an unsupported file and 0
\* for a file without tags; otherwise each of the eight tag bits is set if and only if the key is
\* in the tags, whatever its value (empty, zero or unparsable included), the
\* cover bit if and only if a picture is embedded, and the tempo bit if and
\* only if the tempo reads as a positive integer.
C5_BitIffKeyPresent ==
    \A i \in 1..Len(calls) :
        calls[i].op = "check_metadata" =>
            LET f == calls[i].pre
                res == calls[i].res
            IN  IF f.name = Name_notes_txt THEN res = 0 - 1
                ELSE IF ~f.hasTags THEN res = 0
                ELSE /\ res >= 0
                     /\ res < 2 * HAS_BPM
                     /\ \A k \in BasicKeys : Bit(res, FlagOf(k)) <=> f.tags[k] # Absent
                     /\ Bit(res, HAS_COVER) <=> f.pics # <<>>
                     /\ Bit(res, HAS_BPM) <=> PositiveTempo(f)

\* Reached for C5: a file with an empty title, a zero track number and an
\* unparsable year has all three bits set, and the bit of its zero tempo unset.
C5_Witness ==
    /\ Len(calls) = 1
    /\ calls[1].op = "check_metadata"
    /\ calls[1].pre.tags["title"] = S(<<>>)
    /\ calls[1].pre.tags["track_nr"] = I(0)
    /\ calls[1].pre.tags["year"] = S(<<"x">>)
    /\ calls[1].pre.tags["bpm"] = I(0)
    /\ Bit(calls[1].res, HAS_TITLE)
    /\ Bit(calls[1].res, HAS_TRACK_NUMBER)
    /\ Bit(calls[1].res, HAS_YEAR)
    /\ ~Bit(calls[1].res, HAS_BPM)

\* The file a call of add_bpm or add_cover left.
FileAfter(i) == IF i < Len(calls) THEN calls[i + 1].pre ELSE files[1]
FsAfter(i) == IF i < Len(calls) THEN calls[i + 1].preFs ELSE coverFs

\* C6 as stated: two consecutive calls of add_bpm run the estimation at most
\* once in total, whatever the estimator gives.
C6_AtMostOneEstimation ==
    \A i \in 1..(Len(calls) - 1) :
        (calls[i].op = "add_bpm" /\ calls[i + 1].op = "add_bpm") =>
            calls[i].ran + calls[i + 1].ran <= 1

\* C6: two consecutive calls of add_bpm run the estimation at most once in
\* total when the file holds a positive tempo after the first call (it had one,
\* or the estimate rounded to 1 or more): the second call then changes
\* nothing. When the first call leaves no positive tempo on a tagged supported
\* file (the estimation failed, or the estimate rounded to 0), the second call
\* runs the estimation again.
C6_OnceWhenTempoWritten ==
    \A i \in 1..(Len(calls) - 1) :
        (calls[i].op = "add_bpm" /\ calls[i + 1].op = "add_bpm") =>
            LET mid == calls[i + 1].pre
            IN  /\ PositiveTempo(mid) =>
                    /\ calls[i + 1].ran = 0
                    /\ calls[i].ran + calls[i + 1].ran <= 1
                    /\ FileAfter(i + 1) = mid
                /\ (calls[i].ran = 1 /\ calls[i].beat # BeatError
                        /\ Len(calls[i].beat[2]) > 0 /\ calls[i].beat[2][1] > 5) =>
                    PositiveTempo(mid)
                /\ (~PositiveTempo(mid) /\ mid.hasTags /\ mid.name # Name_notes_txt) =>
                    calls[i + 1].ran = 1

\* C6: the first call estimated 2.5 and wrote a tempo; the second, offered
\* another estimate, did not run the estimation.
C6_Witness ==
    /\ Len(calls) = 2
    /\ calls[1].op = "add_bpm"
    /\ calls[1].pre.tags["bpm"] = Absent
    /\ calls[1].beat = Beat(<<25>>)
    /\ calls[1].ran = 1
    /\ calls[2].beat = Beat(<<35>>)
    /\ calls[2].ran = 0
    /\ files[1].tags["bpm"] = calls[2].pre.tags["bpm"]

\* The run of C7: one file named "<artist> - <title><ext>" without tags, nothing
\* in the used directory, no move-to directory, an empty line at every prompt,
\* and, once the call is past the save and so at the picker and the estimation,
\* a supported cover picked in the cover directory and a successful estimation.
DefaultsRun(a, t, e) ==
    /\ status \in {"done", "raised"}
    /\ Len(calls) = 1
    /\ calls[1].pre.name = a \o Sep \o t \o e
    /\ calls[1].pre.tags = NoFrames
    /\ calls[1].pre.pics = <<>>
    /\ \A c \in calls[1].preFs : c.dir # "used"
    /\ args.used_dir = D("used")
    /\ args.move_to_dir = None
    /\ \A p \in PromptsOf(calls[1]) : p.inp = Line(<<>>)
    /\ calls[1].saved =>
          /\ calls[1].picked \notin {None, Interrupt}
          /\ \E c \in calls[1].preFs : c.dir = "covers" /\ PathOf(c) = calls[1].picked[2]
          /\ calls[1].beat \notin {None, BeatError}
          /\ Len(calls[1].beat[2]) > 0
          /\ calls[1].beat[2][1] > 0

\* The call returned True and left title, artist, album "<title> - Single", album
\* artist = artist, track number 1, the picked cover embedded, a tempo, and the
\* cover file in the used directory and no longer in the cover directory.
DefaultsResult(a, t) ==
    LET f == files[1]
        c == CHOOSE x \in calls[1].preFs : PathOf(x) = calls[1].picked[2]
    IN  /\ calls[1].ret = B(TRUE)
        /\ f.tags["title"] = S(t)
        /\ f.tags["artist"] = S(a)
        /\ f.tags["album"] = S(t \o <<" ", "-", " ", "S", "i", "n", "g", "l", "e">>)
        /\ f.tags["album_artist"] = S(a)
        /\ Text(f.tags["track_nr"]) = S(<<"1">>)
        /\ f.pics = <<c.data>>
        /\ f.tags["bpm"] # Absent
        /\ f.dir = "audio"
        /\ [c EXCEPT !.dir = "used"] \in coverFs
        /\ c \notin coverFs
        /\ \A x \in coverFs : ~(x.dir = "covers" /\ x.name = c.name)

\* C7 as stated: a file named "<artist> - <title><ext>" without tags, a supported
\* cover picked in the cover directory, nothing in the used directory, no
\* move-to directory, a successful estimation and an empty line at every
\* prompt: add_metadata_all leaves title, artist, album "<title> - Single", album
\* artist = artist, track number 1, the picked cover embedded, a tempo, and the
\* cover file in the used directory and no longer in the cover directory.
C7_DefaultsEndToEnd ==
    \A a \in DefArtists, t \in DefTitles, e \in DefExts :
        DefaultsRun(a, t, e) => DefaultsResult(a, t)

\* What the run of C7 gives: the result of C7 whenever set_basic_metadata saved
\* the tags, that is whenever the codec stored the numbers 1 (disc number, track
\* number) and 2025 (year) it was given for texts.
C7_DefaultsWhenSaved ==
    \A a \in DefArtists, t \in DefTitles, e \in DefExts :
        (DefaultsRun(a, t, e) /\ calls[1].saved) => DefaultsResult(a, t)

\* Reached for C7: "D P - O-M.M4A" got four empty answers, the year prompt gave
\* the number 2025, and the codec's exception on it ended add_metadata_all:
\* the file has no tag and no cover, and the image files are where they were.
C7_Witness ==
    /\ status = "raised"
    /\ Len(calls) = 1
    /\ calls[1].pre.name = <<"D", " ", "P">> \o Sep \o <<"O", "-", "M">> \o <<".", "M", "4", "A">>
    /\ ~calls[1].pre.hasTags
    /\ Len(calls[1].prompts) = 4
    /\ \A p \in PromptsOf(calls[1]) : p.inp = Line(<<>>)
    /\ calls[1].prompts[4].name = "year"
    /\ calls[1].prompts[4].value = I(DefaultYear)
    /\ calls[1].ret = Raise
    /\ ~calls[1].saved
    /\ calls[1].picked = None
    /\ files[1] = calls[1].pre
    /\ coverFs = calls[1].preFs

\* C8 as stated: for each prompt, an interrupt gives EXIT; an empty line with a
\* default gives SUCCESS and the default, whatever the default; an empty line
\* without a default gives FAILED; any other line gives SUCCESS with the parsed
\* value, or FAILED when it does not parse.
C8_PromptOutcomes ==
    tm # NoPrompt =>
        LET val == IF IsInterrupt(tm.inp) THEN <<>> ELSE Strip(tm.inp[2])
        IN  /\ IsInterrupt(tm.inp) => tm.result = EXIT
            /\ (~IsInterrupt(tm.inp) /\ val = <<>> /\ tm.default # None) =>
                  tm.result = SUCCESS /\ tm.value = tm.default
            /\ (~IsInterrupt(tm.inp) /\ val = <<>> /\ tm.default = None) =>
                  tm.result = FAILED
            /\ (~IsInterrupt(tm.inp) /\ val # <<>>) =>
                  CASE tm.fn = "ask_input_str" ->
                          tm.result = SUCCESS /\ tm.value = S(val)
                    [] tm.fn = "ask_input_int" ->
                          IF ParseInt(val) # None
                          THEN tm.result = SUCCESS /\ tm.value = ParseInt(val)
                          ELSE tm.result = FAILED
                    [] tm.fn = "ask_input_bool" ->
                          IF Lower(val) \in {<<"y">>, <<"y", "e", "s">>, <<"n">>, <<"n", "o">>}
                          THEN tm.result = SUCCESS /\ tm.value = B(Lower(val)[1] = "y")
                          ELSE tm.result = FAILED

\* The cover was embedded by call i.
Embedded(i) == FileAfter(i).pics # calls[i].pre.pics

\* C9: add_cover never overwrites a file of the used directory. Every file that
\* was in used_dir before a call is there with the same content afterwards,
\* and no name occurs twice in a directory. After embedding: a cover already
\* in used_dir is not moved; when a file of the cover's name exists in
\* used_dir, the cover stays and that file is unchanged; otherwise the cover
\* is moved into used_dir. Without embedding no file is touched.
C9_NoOverwriteInUsedDir ==
    \A i \in 1..Len(calls) :
        calls[i].op = "add_cover" =>
            LET pre == calls[i].preFs
                post == FsAfter(i)
                cp == calls[i].cover_path
                u == args.used_dir
            IN  /\ \A x, y \in post : PathOf(x) = PathOf(y) => x = y
                /\ u # None => \A x \in pre : x.dir = u[2] => x \in post
                /\ ~Embedded(i) => post = pre
                /\ (Embedded(i) /\ u = None) => post = pre
                /\ (Embedded(i) /\ u # None) =>
                      LET c == CHOOSE x \in pre : PathOf(x) = cp
                      IN  IF cp.dir = u[2] THEN post = pre
                          ELSE IF \E x \in pre : x.dir = u[2] /\ x.name = cp.name
                          THEN post = pre
                          ELSE post = (pre \ {c}) \cup {[c EXCEPT !.dir = u[2]]}

\* C9: a.jpg was embedded while another a.jpg was in the used directory: both
\* image files are where they were, with their content.
C9_Witness ==
    /\ Len(calls) >= 1
    /\ calls[1].op = "add_cover"
    /\ args.used_dir = D("used")
    /\ calls[1].cover_path = PathOf(CoverA)
    /\ UsedA \in calls[1].preFs
    /\ Embedded(1)
    /\ UsedA \in FsAfter(1)
    /\ CoverA \in FsAfter(1)

\* t is s without its leading and trailing blanks.
IsStripOf(t, s) ==
    /\ t = <<>> \/ (t[1] # " " /\ t[Len(t)] # " ")
    /\ \E i \in 0..Len(s) :
          /\ i + Len(t) <= Len(s)
          /\ SubSeq(s, i + 1, i + Len(t)) = t
          /\ \A j \in (1..i) \cup ((i + Len(t) + 1)..Len(s)) : s[j] = " "

\* The places of " - " in s.
SepAt(s) == {i \in 1..(Len(s) - 2) : SubSeq(s, i, i + 2) = <<" ", "-", " ">>}

\* C10: parse_filename splits the name without its extension at the first
\* " - " only ("A - B - C.mp3" gives ("A", "B - C")) and gives None when there
\* is none; add_metadata then issues no prompt, leaves the file and the image
\* files as they were, and returns True.
C10_SplitAtFirstSeparator ==
    \A i \in 1..Len(calls) :
        LET name == calls[i].pre.name
            base == SubSeq(name, 1, Len(name) - 4)
            parsed == calls[i].parsed
        IN  /\ SepAt(base) = {} <=> parsed = None
            /\ SepAt(base) # {} =>
                  LET at == CHOOSE x \in SepAt(base) : \A y \in SepAt(base) : x <= y
                  IN  /\ parsed[1] = "tuple"
                      /\ IsStripOf(parsed[2][2], SubSeq(base, 1, at - 1))
                      /\ IsStripOf(parsed[3][2], SubSeq(base, at + 3, Len(base)))
            /\ name = <<"A", " ", "-", " ", "B", " ", "-", " ", "C", ".", "m", "p", "3">> =>
                  parsed = T2(S(<<"A">>), S(<<"B", " ", "-", " ", "C">>))
            /\ parsed = None =>
                  /\ calls[i].prompts = <<>>
                  /\ calls[i].ret = B(TRUE)
                  /\ files[i] = calls[i].pre
                  /\ coverFs = calls[i].preFs
                  /\ pc = "idle"

\* C10: "A-A -.mp3", which has hyphens but no " - ", was skipped: the call
\* returned True and the file was not moved to the move-to directory.
C10_Witness ==
    /\ status = "returned"
    /\ calls[1].pre.name = <<"A", "-", "A", " ", "-", ".", "m", "p", "3">>
    /\ calls[1].parsed = None
    /\ calls[1].ret = B(TRUE)
    /\ args.move_to_dir = D("moved")
    /\ files[1].dir = "audio"

\* The integer a tempo value stands for, when it stands for one: an M4A number,
\* or MP3 text made of an optional "-", then digits, with blanks around it.
TempoNumber(v) ==
    IF IsInt(v) THEN {v[2]}
    ELSE IF ~IsStr(v) THEN {}
    ELSE {n \in (0 - 1000)..1000 :
            \E i, j \in 0..Len(v[2]) :
                LET t == SubSeq(v[2], i + 1, Len(v[2]) - j)
                    d == IF t # <<>> /\ t[1] = "-" THEN Tail(t) ELSE t
                IN  /\ i + j <= Len(v[2])
                    /\ \A k \in (1..i) \cup ((Len(v[2]) - j + 1)..Len(v[2])) : v[2][k] = " "
                    /\ d # <<>>
                    /\ \A k \in 1..Len(d) : d[k] \in Digits
                    /\ n = (IF t[1] = "-" THEN 0 - DigitsVal(d) ELSE DigitsVal(d))}

\* C11 as stated: has_bpm returns False for an unsupported file, a missing
\* tempo, a tempo that is no integer or an integer <= 0, and True only for an
\* integer > 0; it always returns one of the two.
C11_HasBpmFalseOrTrue ==
    \A i \in 1..Len(calls) :
        calls[i].op = "has_bpm" =>
            LET f == calls[i].pre
                positive == /\ f.name # Name_notes_txt
                            /\ \E n \in TempoNumber(f.tags["bpm"]) : n > 0
            IN  /\ calls[i].res \in {B(TRUE), B(FALSE)}
                /\ calls[i].res = B(TRUE) <=> positive

\* The flags of the enum, one bit each.
AllFlags ==
    {HAS_ARTIST, HAS_TITLE, HAS_ALBUM, HAS_ALBUM_ARTIST, HAS_TRACK_NUMBER,
     HAS_DISC_NUMBER, HAS_GENRE, HAS_YEAR, HAS_COVER, HAS_BPM}

\* C12: check_metadata is monotonic under field addition: on a supported file,
\* every bit set before one field is added to the tags (nothing else changed)
\* is set when check_metadata is computed again.
C12_AddingFieldKeepsBits ==
    (Len(calls) = 3 /\ calls[2].op = "add_field") =>
        /\ calls[1].res >= 0
        /\ calls[3].res >= 0
        /\ calls[3].pre # calls[1].pre
        /\ \A flag \in AllFlags : Bit(calls[1].res, flag) => Bit(calls[3].res, flag)

\* C12: a picture was embedded in a file that had a title and a tempo: the
\* three bits are set afterwards.
C12_Witness ==
    /\ Len(calls) = 3
    /\ calls[2].op = "add_field"
    /\ calls[2].key = "cover"
    /\ Bit(calls[1].res, HAS_TITLE)
    /\ Bit(calls[1].res, HAS_BPM)
    /\ ~Bit(calls[1].res, HAS_COVER)
    /\ Bit(calls[3].res, HAS_TITLE)
    /\ Bit(calls[3].res, HAS_BPM)
    /\ Bit(calls[3].res, HAS_COVER)

\* A directory argument that is supplied and is no directory.
InvalidDir(dir_path) == dir_path # None /\ dir_path[2] \notin {"audio", "covers", "used", "moved"}

\* The call did nothing and returned True.
SkippedFile(i) ==
    /\ calls[i].prompts = <<>>
    /\ calls[i].ret = B(TRUE)
    /\ files[i] = calls[i].pre
    /\ coverFs = calls[i].preFs
    /\ pc = "idle"

\* C13 as stated: add_metadata skips the file, with no prompt and no write, and
\* returns True whenever check_metadata fails or any of cover_dir, used_dir
\* and move_to_dir is supplied and invalid.
C13_SkipOnAnyInvalidDir ==
    \A i \in 1..Len(calls) :
        \/ calls[i].flags < 0
        \/ InvalidDir(args.cover_dir)
        \/ InvalidDir(args.used_dir)
        \/ InvalidDir(args.move_to_dir)
        => SkippedFile(i)

\* What add_metadata does in the cases of C13: it skips the file, with no prompt
\* and no write, and returns True whenever check_metadata fails or used_dir or
\* move_to_dir is supplied and invalid. An invalid cover_dir alone does not skip
\* the file: the prompts for the missing fields are issued and, in a call that
\* returns True, the tags are saved (the disc number is written); only the
\* cover step does nothing, so no picture is embedded and no image file is
\* moved.
C13_SkipOnInvalidUsedOrMoveDir ==
    \A i \in 1..Len(calls) :
        /\ \/ calls[i].flags < 0
           \/ InvalidDir(args.used_dir)
           \/ InvalidDir(args.move_to_dir)
           => SkippedFile(i)
        /\ ( /\ calls[i].flags >= 0
             /\ ~InvalidDir(args.used_dir)
             /\ ~InvalidDir(args.move_to_dir)
             /\ InvalidDir(args.cover_dir)
             /\ calls[i].parsed # None )
           =>
           /\ ~calls[i].skipped
           /\ calls[i].ret = B(TRUE) =>
                 /\ Text(files[i].tags["disc_nr"]) = S(<<"1">>)
                 /\ files[i].pics = calls[i].pre.pics
                 /\ coverFs = calls[i].preFs
                 /\ Bit(calls[i].flags, HAS_GENRE) \/ Issued(calls[i], "genre")
                 /\ args.move_to_dir # None => files[i].dir = args.move_to_dir[2]

\* Reached for C13: with an invalid cover_dir and valid used and move-to
\* directories, "A - T.m4a", which lacks genre, tempo and cover, was prompted
\* for, got the genre "G" and a tempo and was moved, and got no cover:
\* select_cover gave None without opening the picker.
C13_Witness ==
    /\ status = "returned"
    /\ args = [cover_dir |-> D("nodir"), used_dir |-> D("used"), move_to_dir |-> D("moved")]
    /\ calls[1].pre.name = Name_A_T_m4a
    /\ calls[1].pre.tags["genre"] = Absent
    /\ calls[1].ret = B(TRUE)
    /\ Issued(calls[1], "genre")
    /\ calls[1].picked = None
    /\ files[1].tags["genre"] = S(<<"G">>)
    /\ files[1].tags["bpm"] # Absent
    /\ files[1].pics = <<>>
    /\ files[1].dir = "moved"

\* Reached for C13: the file that is not there was skipped.
C13_WitnessFailure ==
    /\ status = "returned"
    /\ calls[1].flags = 0 - 1
    /\ args = DefaultArgs
    /\ ~calls[1].pre.exists
    /\ SkippedFile(1)

\* The number an existing track-number tag holds when it is numeric (an M4A
\* number, or MP3 text whose part before "/" is digits), else none.
TrackTagNumber(f) ==
    LET v == f.tags["track_nr"]
        cut == IF IsStr(v) /\ \E j \in 1..Len(v[2]) : v[2][j] = "/"
               THEN SubSeq(v[2], 1, (CHOOSE j \in 1..Len(v[2]) :
                                        v[2][j] = "/" /\ \A m \in 1..(j - 1) : v[2][m] # "/") - 1)
               ELSE IF IsStr(v) THEN v[2] ELSE <<>>
    IN  IF ~f.hasTags \/ v = Absent THEN {}
        ELSE IF IsInt(v) THEN {v[2]}
        ELSE IF cut # <<>> /\ \A j \in 1..Len(cut) : cut[j] \in Digits THEN {DigitsVal(cut)}
        ELSE {}

\* The album-artist prompt of the call was answered, so the track number has
\* been considered.
PastAlbumArtist(c) ==
    \E p \in PromptsOf(c) : p.name = "album_artist" /\ p.result # EXIT

TrackPrompted(i) == Issued(calls[i], "track") \/ (i = Len(calls) /\ pc = "track")

\* The track step in the album-artist branch, with `album` standing for the
\* value given: the default offered is `seed`, and the prompt is issued if and
\* only if the album differs from "{title} - Single" or the seed is not 1.
TrackRule(i, album, seed) ==
    /\ TrackPrompted(i) <=> (album # SingleOf(calls[i].pre.name) \/ seed # 1)
    /\ \A p \in PromptsOf(calls[i]) : p.name = "track" => p.default = I(seed)
    /\ (~TrackPrompted(i) /\ calls[i].ret = B(TRUE)) =>
          Text(files[i].tags["track_nr"]) = S(<<"1">>)

\* C14 as stated: the track number is considered only when the album-artist
\* prompt is issued; the default is the existing track-number tag when it is
\* present and numeric, else 1; the track prompt is issued if and only if the
\* album of the file is not "{title} - Single" or the default is not 1, and
\* the track number is forced to 1 when it is skipped; outside the
\* album-artist branch the track number is left as it was.
C14_TrackPromptRule ==
    \A i \in 1..Len(calls) :
        /\ PastAlbumArtist(calls[i]) =>
              TrackRule(i, ResolvedAlbum(calls[i]),
                        IF TrackTagNumber(calls[i].pre) = {} THEN 1
                        ELSE CHOOSE n \in TrackTagNumber(calls[i].pre) : TRUE)
        /\ ~Issued(calls[i], "album_artist") =>
              /\ ~TrackPrompted(i)
              /\ files[i].tags["track_nr"] = calls[i].pre.tags["track_nr"]

\* What add_metadata does in the cases of C14: the same rule with the album
\* read from the local variable, which is None when the file has an album tag
\* and the answer to the album prompt otherwise, and with a track-number tag
\* of 0 giving the default 1.
C14_TrackPromptRuleOnLocalAlbum ==
    \A i \in 1..Len(calls) :
        /\ PastAlbumArtist(calls[i]) =>
              TrackRule(i,
                        IF Bit(calls[i].flags, HAS_ALBUM) THEN None
                        ELSE ResolvedAlbum(calls[i]),
                        IF TrackTagNumber(calls[i].pre) \in {{}, {0}}
                           \/ ~Bit(calls[i].flags, HAS_TRACK_NUMBER) THEN 1
                        ELSE CHOOSE n \in TrackTagNumber(calls[i].pre) : TRUE)
        /\ ~Issued(calls[i], "album_artist") =>
              /\ ~TrackPrompted(i)
              /\ files[i].tags["track_nr"] = calls[i].pre.tags["track_nr"]

\* Reached for C14: the file had the album "T - Single" and track number 1, and
\* the track prompt was issued.
C14_Witness ==
    /\ status = "returned"
    /\ calls[1].pre.name = Name_A_T_m4a
    /\ calls[1].pre.tags["album"] = SingleOf(Name_A_T_m4a)
    /\ calls[1].pre.tags["track_nr"] = I(1)
    /\ calls[1].ret = B(TRUE)
    /\ Issued(calls[1], "track")

\* The path names an image file that is on disk: .jpg, .jpeg or .png in any case.
SupportedCover(fs, path) ==
    /\ \E c \in fs : c.dir = path.dir /\ c.name = path.name
    /\ \E e \in {<<".", "j", "p", "g">>, <<".", "j", "p", "e", "g">>, <<".", "p", "n", "g">>} :
          /\ Len(path.name) > Len(e)
          /\ Lower(SubSeq(path.name, Len(path.name) - Len(e) + 1, Len(path.name))) = e

\* add_cover left the file as it was exactly in the cases `unchanged`, and
\* otherwise left it with the cover as its one picture and its tags as before.
CoverRule(i, unchanged) ==
    LET f == calls[i].pre
        after == FileAfter(i)
    IN  /\ after = f <=> unchanged
        /\ after # f =>
              /\ Len(after.pics) = 1
              /\ \E c \in calls[i].preFs :
                    /\ PathOf(c) = calls[i].cover_path
                    /\ after.pics[1] = c.data
              /\ after.tags = f.tags
              /\ after.name = f.name /\ after.dir = f.dir

\* C15 as stated: on a supported audio file add_cover leaves the file unchanged
\* exactly when the cover is unsupported or the file already has a cover, and
\* otherwise, whatever used_dir is, embeds the cover as the file's one picture.
C15_EmbedsUnlessCoverOrUnsupported ==
    \A i \in 1..Len(calls) :
        (calls[i].op = "add_cover" /\ calls[i].pre.name # Name_notes_txt) =>
            CoverRule(i, \/ ~SupportedCover(calls[i].preFs, calls[i].cover_path)
                         \/ calls[i].pre.pics # <<>>)

\* What add_cover does in the cases of C15: the file is also left unchanged
\* when used_dir is supplied and invalid, and when the file is an M4A file
\* without tags, on which has_cover raises.
C15_EmbedsUnlessEarlyReturn ==
    \A i \in 1..Len(calls) :
        (calls[i].op = "add_cover" /\ calls[i].pre.name # Name_notes_txt) =>
            /\ CoverRule(i, \/ ~SupportedCover(calls[i].preFs, calls[i].cover_path)
                            \/ calls[i].pre.pics # <<>>
                            \/ InvalidDir(args.used_dir)
                            \/ calls[i].pre.name = Name_A_T_m4a /\ ~calls[i].pre.hasTags)
            /\ calls[i].raised <=>
                  /\ calls[i].pre.name = Name_A_T_m4a
                  /\ ~calls[i].pre.hasTags
                  /\ ~InvalidDir(args.used_dir)
                  /\ SupportedCover(calls[i].preFs, calls[i].cover_path)

\* Reached for C15: add_cover with a supported cover and an invalid used_dir
\* left the file, which had no cover, without one.
C15_Witness ==
    /\ Len(calls) = 1
    /\ calls[1].op = "add_cover"
    /\ calls[1].pre = AudioFile(Name_B_U_mp3, TRUE, NoFrames, <<>>)
    /\ calls[1].cover_path = PathOf(CoverB)
    /\ CoverB \in calls[1].preFs
    /\ args.used_dir = D("nodir")
    /\ files[1] = calls[1].pre

\* The tag a prompt is for.
KeyOfPrompt(name) == IF name = "track" THEN "track_nr" ELSE name

\* C16 as stated: a prompt that ends FAILED does not end the call: add_metadata
\* returns False only when a later prompt is cancelled; otherwise it goes on
\* to the save, the cover, the tempo and the move and returns True. The field
\* of a failed string prompt is left as it was (the prompt returned None), and
\* the field of a failed integer prompt is written with the prompt's default.
\* Set apart is an exception that leaves the file picker, which comes after
\* the prompts and the save: the tags are on disk by then.
C16_FailedPromptGoesOn ==
    \A i \in 1..Len(calls) :
        \A j \in 1..Len(calls[i].prompts) :
            LET c == calls[i]
                p == c.prompts[j]
                key == KeyOfPrompt(p.name)
            IN  p.result = FAILED =>
                /\ c.ret = B(FALSE) =>
                      j < Len(c.prompts) /\ c.prompts[Len(c.prompts)].result = EXIT
                /\ c.ret = None => (i = Len(calls) /\ pc # "idle")
                /\ c.ret = Raise =>
                      /\ c.picked = Interrupt
                      /\ Text(files[i].tags["disc_nr"]) = S(<<"1">>)
                /\ c.ret = B(TRUE) =>
                      /\ Text(files[i].tags["disc_nr"]) = S(<<"1">>)
                      /\ p.name \in {"album", "album_artist", "genre"} =>
                            p.value = None /\ files[i].tags[key] = c.pre.tags[key]
                      /\ p.name \in {"track", "year"} =>
                            /\ p.value = p.default
                            /\ IsInt(p.default)
                            /\ Text(files[i].tags[key]) = Text(p.default)
                      /\ ~Bit(c.flags, HAS_BPM) => c.ran = 1
                      /\ ( /\ ~Bit(c.flags, HAS_COVER)
                           /\ c.picked # None
                           /\ SupportedCover(c.preFs, c.picked[2])
                           /\ ~InvalidDir(args.cover_dir) )
                         => Len(files[i].pics) = 1
                      /\ args.move_to_dir # None => files[i].dir = args.move_to_dir[2]

\* What add_metadata does after a failed prompt: it returns False only when a
\* later prompt is cancelled, and it reaches the save. There the call ends by
\* the codec's exception with the file as it was, tags, pictures and place,
\* and this only when a number went to the codec for a text: on an MP3, or
\* with a year (the default of a failed year prompt included). Or the tags are
\* saved, and the call ends by an exception that leaves the picker or returns
\* True.
C16_FailedPromptReachesSave ==
    \A i \in 1..Len(calls) :
        \A j \in 1..Len(calls[i].prompts) :
            LET c == calls[i]
                p == c.prompts[j]
            IN  p.result = FAILED =>
                /\ c.ret = B(FALSE) =>
                      j < Len(c.prompts) /\ c.prompts[Len(c.prompts)].result = EXIT
                /\ c.ret = None => (i = Len(calls) /\ pc # "idle")
                /\ c.ret = B(TRUE) => c.saved
                /\ (c.ret = Raise /\ c.saved) =>
                      /\ c.picked = Interrupt
                      /\ Text(files[i].tags["disc_nr"]) = S(<<"1">>)
                /\ (c.ret = Raise /\ ~c.saved) =>
                      /\ files[i] = c.pre
                      /\ coverFs = c.preFs
                      /\ \/ ExtOfName(c.pre.name) = MP3
                         \/ \E q \in PromptsOf(c) :
                               q.name = "year" /\ IsInt(q.value) /\ q.value # I(0)

\* Reached for C16: "A - T.m4a" holds every field but the year; its year prompt
\* got an empty line, failed and gave its default, the number 2025, and the
\* codec's exception on it ended the call with no year written.
C16_Witness ==
    /\ status = "raised"
    /\ calls[1].pre = AudioFile(Name_A_T_m4a, TRUE,
                                [FullTags(M4A, SingleOf(Name_A_T_m4a)) EXCEPT !["year"] = Absent],
                                <<"img0">>)
    /\ calls[1].prompts[Len(calls[1].prompts)].name = "year"
    /\ calls[1].prompts[Len(calls[1].prompts)].inp = Line(<<>>)
    /\ calls[1].prompts[Len(calls[1].prompts)].result = FAILED
    /\ calls[1].prompts[Len(calls[1].prompts)].value = I(DefaultYear)
    /\ calls[1].ret = Raise
    /\ ~calls[1].saved
    /\ files[1] = calls[1].pre

============================================================================
